---- MODULE Spec2Model ----
(***************************************************************************)
(* A model of the epublet core: the streaming ZIP reader of src/src/zip.rs *)
(* (byte-level open, central-directory parsing, buffered and streamed      *)
(* entry reads) and the chapter render operations of mu-epub-render.       *)
(*                                                                         *)
(* Conventions.                                                            *)
(*  - A file is a sequence of bytes (0..255); offsets are 0-based as in    *)
(*    the Rust code, At(b, o) is b[o].                                     *)
(*  - TLC integers are 32-bit signed.  A u32 read from bytes is held as    *)
(*    its two's-complement value (u32::MAX is read_u32_le of four 0xFF     *)
(*    bytes); equality is exact, and every archive of Init keeps the       *)
(*    numeric fields it does arithmetic on below 2^31.                     *)
(*  - usize is 64 bits: usize::try_from(u64) never fails.                  *)
(*  - The byte source is std::io::Cursor<Vec<u8>> as in the unit tests: a  *)
(*    seek to any absolute offset succeeds, read() returns every byte      *)
(*    available, read_exact() fails at end of file.                        *)
(***************************************************************************)
EXTENDS Integers, Sequences, FiniteSets, TLC

VARIABLES
    file,      \* the byte source handed to StreamingZip::new_with_limits
    limits,    \* Option<ZipLimits> handed to new_with_limits
    zip,       \* the reader: not yet opened, opened (entries, num_entries) or failed
    pos,       \* the source cursor (stream position) left by the last operation
    last,      \* the last operation called on the opened reader and its result
    render     \* the state of the render engine operations (RenderSpec)

zipVars == <<file, limits, zip, pos, last>>
vars == <<file, limits, zip, pos, last, render>>

-----------------------------------------------------------------------------
(* Small helpers *)

Min(a, b) == IF a < b THEN a ELSE b
Max(a, b) == IF a > b THEN a ELSE b

At(b, o) == b[o + 1]

\* b[from .. from+n) with 0-based from
Slice(b, from, n) == SubSeq(b, from + 1, from + n)

Rep(x, n) == [i \in 1..n |-> x]

-----------------------------------------------------------------------------
(* Program constants of src/src/zip.rs *)

DEFAULT_ZIP_SCRATCH_BYTES == 8192
MAX_CD_ENTRIES == 256
MAX_FILENAME_LEN == 256
SIG_LOCAL_FILE_HEADER == 67324752
SIG_CD_ENTRY == 33639248
SIG_EOCD == 101010256
SIG_ZIP64_EOCD == 101075792
SIG_ZIP64_EOCD_LOCATOR == 117853008
EOCD_MIN_SIZE == 22
u16_MAX == 65535
MAX_EOCD_SCAN == EOCD_MIN_SIZE + u16_MAX
METHOD_STORED == 0
METHOD_DEFLATED == 8

\* the largest integer TLC holds; a u64 that does not fit saturates to it
IntMax == 2147483646 + 1

-----------------------------------------------------------------------------
(* Little-endian decoding: read_u16_le, read_u32_le, u64::from_le_bytes *)

read_u16_le(buf, offset) == At(buf, offset) + 256 * At(buf, offset + 1)

read_u32_le(buf, offset) ==
    At(buf, offset) + 256 * At(buf, offset + 1) + 65536 * At(buf, offset + 2)
        + 16777216 * (IF At(buf, offset + 3) >= 128
                         THEN At(buf, offset + 3) - 256
                         ELSE At(buf, offset + 3))

u32_MAX == read_u32_le(<<255, 255, 255, 255>>, 0)

\* `x as u64` for a u32 held in two's complement
u32_as_u64(x) == IF x < 0 THEN IntMax ELSE x

read_u64_le(buf, offset) ==
    IF \/ \E k \in 4..7 : At(buf, offset + k) # 0
       \/ At(buf, offset + 3) >= 128
    THEN IntMax
    ELSE read_u32_le(buf, offset)

\* to_le_bytes, used by the archive builders
le16(n) == <<n % 256, (n \div 256) % 256>>
le32(n) == <<n % 256, (n \div 256) % 256, (n \div 65536) % 256, (n \div 16777216) % 256>>
le64(n) == le32(n) \o <<0, 0, 0, 0>>
FF(n) == Rep(255, n)

-----------------------------------------------------------------------------
(* The byte source: a Read + Seek over the archive's bytes, as               *)
(* std::io::Cursor<Vec<u8>> is.  A byte the source cannot deliver (a read    *)
(* that returns Err) is held as Unreadable; seeks do not fail.               *)

Unreadable == -1

\* read_exact of n bytes at position p succeeds
ReadOk(f, p, n) ==
    /\ n <= Len(f)
    /\ p <= Len(f) - n
    /\ \A k \in (p + 1)..(p + n) : f[k] # Unreadable

-----------------------------------------------------------------------------
(* ZipLimits and its builders *)

NoLimits == [some |-> FALSE]

ZipLimits_new(max_file_read_size, max_mimetype_size) ==
    [some |-> TRUE,
     max_file_read_size |-> max_file_read_size,
     max_mimetype_size |-> max_mimetype_size,
     strict |-> FALSE,
     max_eocd_scan |-> MAX_EOCD_SCAN]

with_strict(l, strict) == [l EXCEPT !.strict = strict]

with_max_eocd_scan(l, max_eocd_scan) ==
    [l EXCEPT !.max_eocd_scan = Max(max_eocd_scan, EOCD_MIN_SIZE)]

\* a struct literal: every field is pub
ZipLimits_literal(max_file_read_size, max_mimetype_size, strict, max_eocd_scan) ==
    [some |-> TRUE,
     max_file_read_size |-> max_file_read_size,
     max_mimetype_size |-> max_mimetype_size,
     strict |-> strict,
     max_eocd_scan |-> max_eocd_scan]

\* new_with_limits, lines 155-157: the tail-scan cap handed to find_eocd
effective_max_eocd_scan(l) ==
    IF l.some THEN Min(l.max_eocd_scan, MAX_EOCD_SCAN) ELSE MAX_EOCD_SCAN

-----------------------------------------------------------------------------
(* find_eocd *)

\* an index expression buf[offset .. offset+n) that does not panic
InBounds(buf, offset, n) == offset + n <= Len(buf)

EocdResult(kind, eocd_pos, sentinel, locator, cd_offset, cd_size, num_entries) ==
    [kind |-> kind, eocd_pos |-> eocd_pos, sentinel |-> sentinel, locator |-> locator,
     cd_offset |-> cd_offset, cd_size |-> cd_size, num_entries |-> num_entries]

EocdFail(kind, eocd_pos, sentinel, locator) ==
    EocdResult(kind, eocd_pos, sentinel, locator, 0, 0, 0)

\* the sentinel test without its entry-count disjunct
sentinel_without_count(num_entries, cd_size_32, cd_offset_32) ==
    \/ cd_size_32 = u32_MAX
    \/ cd_offset_32 = u32_MAX

\* lines 247-249
uses_zip64_sentinel(num_entries, cd_size_32, cd_offset_32) ==
    \/ num_entries = u16_MAX
    \/ cd_size_32 = u32_MAX
    \/ cd_offset_32 = u32_MAX

\* lines 251-281: Some((disk, zip64_eocd_offset, total_disks)) or None, or
\* the read of the 20 bytes failed
zip64_locator(f, eocd_pos) ==
    IF eocd_pos >= 20 /\ ~ReadOk(f, eocd_pos - 20, 20)
    THEN [some |-> FALSE, failed |-> TRUE]
    ELSE IF eocd_pos >= 20 /\ read_u32_le(f, eocd_pos - 20) = SIG_ZIP64_EOCD_LOCATOR
    THEN [some |-> TRUE, failed |-> FALSE,
          zip64_disk |-> read_u32_le(f, eocd_pos - 16),
          zip64_eocd_offset |-> read_u64_le(f, eocd_pos - 12),
          total_disks |-> read_u32_le(f, eocd_pos - 4)]
    ELSE [some |-> FALSE, failed |-> FALSE]

read_zip64_eocd(f, offset) ==
    IF ~ReadOk(f, offset, 56) THEN [kind |-> "IoError"]
    ELSE IF read_u32_le(f, offset) # SIG_ZIP64_EOCD THEN [kind |-> "InvalidFormat"]
    ELSE IF read_u64_le(f, offset + 4) < 44 THEN [kind |-> "InvalidFormat"]
    ELSE [kind |-> "Ok",
          disk_number |-> read_u32_le(f, offset + 16),
          disk_with_cd_start |-> read_u32_le(f, offset + 20),
          num_entries |-> read_u64_le(f, offset + 32),
          cd_size |-> read_u64_le(f, offset + 40),
          cd_offset |-> read_u64_le(f, offset + 48)]

\* an addition that wraps where checked_add reports the overflow
wrapping_add(a, b) == IF a >= IntMax - b THEN 0 ELSE a + b

\* checked_add on u64; a saturated operand stands for a value that overflows
\* nothing here but exceeds every file size
checked_add(a, b) == IF a >= IntMax - b THEN IntMax ELSE a + b

\* the ZIP64 EOCD record taken whatever disks it names
eocd_zip64_any_disk(f, eocd_pos, sentinel, zip64) ==
    IF zip64.kind # "Ok" THEN EocdFail(zip64.kind, eocd_pos, sentinel, TRUE)
    ELSE LET cd_end == checked_add(zip64.cd_offset, zip64.cd_size)
         IN  IF cd_end > eocd_pos \/ cd_end > Len(f)
             THEN EocdFail("InvalidFormat", eocd_pos, sentinel, TRUE)
             ELSE EocdResult("Ok", eocd_pos, sentinel, TRUE,
                             zip64.cd_offset, zip64.cd_size, zip64.num_entries)

\* lines 289-304: the ZIP64 EOCD record the locator points at was read
eocd_zip64(f, eocd_pos, sentinel, zip64) ==
    IF zip64.kind # "Ok" THEN EocdFail(zip64.kind, eocd_pos, sentinel, TRUE)
    ELSE IF zip64.disk_number # 0 \/ zip64.disk_with_cd_start # 0
    THEN EocdFail("UnsupportedZip64", eocd_pos, sentinel, TRUE)
    ELSE LET cd_end == checked_add(zip64.cd_offset, zip64.cd_size)
         IN  IF cd_end > eocd_pos \/ cd_end > Len(f)
             THEN EocdFail("InvalidFormat", eocd_pos, sentinel, TRUE)
             ELSE EocdResult("Ok", eocd_pos, sentinel, TRUE,
                             zip64.cd_offset, zip64.cd_size, zip64.num_entries)

\* the EOCD's own fields taken whatever sentinel or locator there is
eocd_fields_32(f, eocd_pos, num_entries, cd_size_32, cd_offset_32, sentinel, loc) ==
    LET cd_end == checked_add(u32_as_u64(cd_offset_32), u32_as_u64(cd_size_32))
    IN  IF cd_end > eocd_pos \/ cd_end > Len(f)
        THEN EocdFail("InvalidFormat", eocd_pos, FALSE, FALSE)
        ELSE EocdResult("Ok", eocd_pos, FALSE, FALSE,
                        u32_as_u64(cd_offset_32), u32_as_u64(cd_size_32), num_entries)

\* lines 283-318: the sentinel test and the locator read are done
eocd_fields(f, eocd_pos, num_entries, cd_size_32, cd_offset_32, sentinel, loc) ==
    IF loc.failed THEN EocdFail("IoError", eocd_pos, sentinel, FALSE)
    ELSE IF sentinel \/ loc.some
    THEN IF ~loc.some THEN EocdFail("InvalidFormat", eocd_pos, sentinel, FALSE)
         ELSE IF loc.zip64_disk # 0 \/ loc.total_disks # 1
         THEN EocdFail("UnsupportedZip64", eocd_pos, sentinel, TRUE)
         ELSE eocd_zip64(f, eocd_pos, sentinel, read_zip64_eocd(f, loc.zip64_eocd_offset))
    ELSE LET cd_end == checked_add(u32_as_u64(cd_offset_32), u32_as_u64(cd_size_32))
         IN  IF cd_end > eocd_pos \/ cd_end > Len(f)
             THEN EocdFail("InvalidFormat", eocd_pos, FALSE, FALSE)
             ELSE EocdResult("Ok", eocd_pos, FALSE, FALSE,
                             u32_as_u64(cd_offset_32), u32_as_u64(cd_size_32),
                             num_entries)

\* lines 247-318: the signature at eocd_pos was accepted
eocd_accepted(f, eocd_pos, num_entries, cd_size_32, cd_offset_32) ==
    eocd_fields(f, eocd_pos, num_entries, cd_size_32, cd_offset_32,
                uses_zip64_sentinel(num_entries, cd_size_32, cd_offset_32),
                zip64_locator(f, eocd_pos))

\* line 243: the candidate at buffer index i is the archive's EOCD
eocd_end_matches(file_size, eocd_pos, comment_len) ==
    eocd_pos + EOCD_MIN_SIZE + comment_len = file_size

\* lines 235-245: buffer index i holds the signature and its record ends the file
eocd_candidate(f, buffer, scan_base, i) ==
    /\ read_u32_le(buffer, i) = SIG_EOCD
    /\ eocd_end_matches(Len(f), scan_base + i, read_u16_le(buffer, i + 20))

\* lines 237-239: the fields of the record at buffer index i
eocd_at(f, buffer, scan_base, i) ==
    eocd_accepted(f, scan_base + i, read_u16_le(buffer, i + 8),
                  read_u32_le(buffer, i + 12), read_u32_le(buffer, i + 16))

\* the loop runs i downwards: of the candidates `hits` the one at the
\* greatest index is met first, and none leaves line 322
eocd_first_hit(f, buffer, scan_base, hits) ==
    IF hits = {} THEN EocdFail("InvalidFormat", -1, FALSE, FALSE)
    ELSE eocd_at(f, buffer, scan_base, CHOOSE h \in hits : \A g \in hits : g <= h)

\* lines 234-322: the backward scan, i from bytes_read - 22 (saturating) down
\* to 0.  A buffer shorter than an EOCD record is indexed past its end: a
\* panic.
eocd_scan(f, buffer, scan_base) ==
    IF Len(buffer) < EOCD_MIN_SIZE
    THEN IF ~InBounds(buffer, 0, 4) THEN EocdFail("Panic", -1, FALSE, FALSE)
         ELSE IF read_u32_le(buffer, 0) = SIG_EOCD THEN EocdFail("Panic", -1, FALSE, FALSE)
         ELSE EocdFail("InvalidFormat", -1, FALSE, FALSE)
    ELSE eocd_first_hit(f, buffer, scan_base,
                        {i \in 0..(Len(buffer) - EOCD_MIN_SIZE) :
                            eocd_candidate(f, buffer, scan_base, i)})

\* line 225
scan_range(file_size, max_eocd_scan) == Min(file_size, max_eocd_scan)

\* lines 228-231: the buffer was read; bytes_read = Len(buffer)
eocd_read(f, buffer) == eocd_scan(f, buffer, Len(f) - Len(buffer))

find_eocd(f, max_eocd_scan) ==
    IF Len(f) < EOCD_MIN_SIZE THEN EocdFail("InvalidFormat", -1, FALSE, FALSE)
    ELSE IF ~ReadOk(f, Len(f) - scan_range(Len(f), max_eocd_scan),
                    scan_range(Len(f), max_eocd_scan))
    THEN EocdFail("IoError", -1, FALSE, FALSE)
    ELSE eocd_read(f, Slice(f, Len(f) - scan_range(Len(f), max_eocd_scan),
                            scan_range(Len(f), max_eocd_scan)))

-----------------------------------------------------------------------------
(* read_cd_entry *)

\* String::from_utf8_lossy on the names the archives use: ASCII bytes are
\* kept, a byte >= 0x80 standing alone is invalid UTF-8 and becomes U+FFFD,
\* which is the three bytes EF BF BD
RECURSIVE from_utf8_lossy(_)
from_utf8_lossy(bytes) ==
    IF bytes = <<>> THEN <<>>
    ELSE IF Len(bytes) = 1
    THEN (IF bytes[1] < 128 THEN bytes ELSE <<239, 191, 189>>)
    ELSE LET h == Len(bytes) \div 2
         IN  from_utf8_lossy(SubSeq(bytes, 1, h))
                 \o from_utf8_lossy(SubSeq(bytes, h + 1, Len(bytes)))

CdEntry_new ==
    [method |-> 0, compressed_size |-> 0, uncompressed_size |-> 0,
     local_header_offset |-> 0, crc32 |-> 0, filename |-> <<>>]

\* lines 432-461: one 8-byte value of the 0x0001 field, taken when `needed`
zip64_take(f, st, needed, field) ==
    IF st.kind # "Ok" \/ ~needed THEN st
    ELSE IF st.field_remaining < 8 THEN [st EXCEPT !.kind = "InvalidFormat"]
    ELSE IF ~ReadOk(f, st.q, 8) THEN [st EXCEPT !.kind = "IoError"]
    ELSE [st EXCEPT !.entry = [st.entry EXCEPT ![field] = read_u64_le(f, st.q)],
                    !.got = st.got \cup {field},
                    !.field_remaining = st.field_remaining - 8,
                    !.q = st.q + 8]

RECURSIVE extra_loop(_, _, _, _)

\* lines 462-470: the 0x0001 field was taken from, s3 is what it left
extra_skip(f, st, s3, extra_remaining, needs) ==
    IF s3.kind # "Ok" THEN [st EXCEPT !.kind = s3.kind]
    ELSE extra_loop(f, [kind |-> "Ok", q |-> s3.q + s3.field_remaining,
                        entry |-> s3.entry, got |-> s3.got],
                    extra_remaining, needs)

\* lines 431-461: the three values of the 0x0001 field, in their order
\* an upgrade that hands the first value to the compressed size
zip64_fields_swapped(f, s0, needs) ==
    zip64_take(f,
               zip64_take(f,
                          zip64_take(f, s0, "compressed_size" \in needs,
                                     "compressed_size"),
                          "uncompressed_size" \in needs, "uncompressed_size"),
               "local_header_offset" \in needs, "local_header_offset")

zip64_fields(f, s0, needs) ==
    zip64_take(f,
               zip64_take(f,
                          zip64_take(f, s0, "uncompressed_size" \in needs,
                                     "uncompressed_size"),
                          "compressed_size" \in needs, "compressed_size"),
               "local_header_offset" \in needs, "local_header_offset")

\* lines 419-471: the extra-field loop; st = [kind, q, entry, got]
extra_loop(f, st, extra_remaining, needs) ==
    IF extra_remaining < 4 THEN [st EXCEPT !.q = st.q + extra_remaining]
    ELSE IF ~ReadOk(f, st.q, 4) THEN [st EXCEPT !.kind = "IoError"]
    ELSE LET header_id == read_u16_le(f, st.q)
             field_size == read_u16_le(f, st.q + 2)
             remaining == extra_remaining - 4
         IN  IF field_size > remaining THEN [st EXCEPT !.kind = "InvalidFormat"]
             ELSE IF header_id = 1
             THEN extra_skip(f, st,
                             zip64_fields(f, [kind |-> "Ok", q |-> st.q + 4,
                                              entry |-> st.entry, got |-> st.got,
                                              field_remaining |-> field_size],
                                          needs),
                             remaining - field_size, needs)
             ELSE extra_loop(f, [st EXCEPT !.q = st.q + 4 + field_size],
                             remaining - field_size, needs)

CdNone(p) == [kind |-> "None", entry |-> CdEntry_new, pos |-> p]
CdErr(kind, p) == [kind |-> kind, entry |-> CdEntry_new, pos |-> p]

\* lines 477-489: the extra fields are through, x is what the loop left
cd_entry_result(x, needs, comment_len) ==
    IF x.kind # "Ok" THEN CdErr(x.kind, x.q)
    ELSE IF needs \ x.got # {} THEN CdErr("InvalidFormat", x.q)
    ELSE [kind |-> "Some", entry |-> x.entry, pos |-> x.q + comment_len]

\* the cursor is at p; Ok(Some(entry)) is kind "Some", Ok(None) is kind "None"
\* line 399: the name is read and stored
name_len_stored(name_len) == name_len > 0 /\ name_len <= MAX_FILENAME_LEN

read_cd_entry(f, p) ==
    IF ~ReadOk(f, p, 4) THEN CdNone(p)
    ELSE IF read_u32_le(f, p) # SIG_CD_ENTRY THEN CdNone(p + 4)
    ELSE IF ~ReadOk(f, p + 4, 42) THEN CdErr("IoError", p + 4)
    ELSE LET compressed_size_32 == read_u32_le(f, p + 20)
             uncompressed_size_32 == read_u32_le(f, p + 24)
             name_len == read_u16_le(f, p + 28)
             extra_len == read_u16_le(f, p + 30)
             comment_len == read_u16_le(f, p + 32)
             local_header_offset_32 == read_u32_le(f, p + 42)
             stores_name == name_len_stored(name_len)
             entry == [method |-> read_u16_le(f, p + 10),
                       crc32 |-> read_u32_le(f, p + 16),
                       compressed_size |-> u32_as_u64(compressed_size_32),
                       uncompressed_size |-> u32_as_u64(uncompressed_size_32),
                       local_header_offset |-> u32_as_u64(local_header_offset_32),
                       filename |-> IF stores_name /\ ReadOk(f, p + 46, name_len)
                                       THEN from_utf8_lossy(Slice(f, p + 46, name_len))
                                       ELSE <<>>]
             needs == (IF uncompressed_size_32 = u32_MAX THEN {"uncompressed_size"} ELSE {})
                        \cup (IF compressed_size_32 = u32_MAX THEN {"compressed_size"} ELSE {})
                        \cup (IF local_header_offset_32 = u32_MAX
                                 THEN {"local_header_offset"} ELSE {})
         IN  IF stores_name /\ ~ReadOk(f, p + 46, name_len) THEN CdErr("IoError", p + 46)
             ELSE cd_entry_result(extra_loop(f, [kind |-> "Ok", q |-> p + 46 + name_len,
                                                 entry |-> entry, got |-> {}],
                                             extra_len, needs),
                                  needs, comment_len)

-----------------------------------------------------------------------------
(* new_with_limits *)

ZipNew == [status |-> "new", err |-> "", entries |-> <<>>, num_entries |-> 0,
           eocd |-> EocdFail("", -1, FALSE, FALSE), opened_at |-> 0]

ZipErr(kind, eocd) == [status |-> "failed", err |-> kind, entries |-> <<>>,
                       num_entries |-> 0, eocd |-> eocd, opened_at |-> 0]

ZipOk(entries, eocd) == [status |-> "open", err |-> "", entries |-> entries,
                         num_entries |-> eocd.num_entries, eocd |-> eocd,
                         opened_at |-> 0]

\* the loop's state: the entries pushed, the cursor, the error met (kind) and
\* whether the loop was left (break or return)
CdLoop(kind, entries, p, done) ==
    [kind |-> kind, entries |-> entries, pos |-> p, done |-> done]

\* lines 183-189: r is what read_cd_entry returned
cd_loop_entry(st, strict, r) ==
    IF r.kind = "Some"
    THEN (IF Len(st.entries) >= MAX_CD_ENTRIES
          THEN CdLoop("CentralDirFull", st.entries, r.pos, TRUE)
          ELSE CdLoop("Ok", Append(st.entries, r.entry), r.pos, FALSE))
    ELSE IF r.kind = "None"
    THEN CdLoop(IF strict THEN "InvalidFormat" ELSE "Ok", st.entries, r.pos, TRUE)
    ELSE CdLoop(r.kind, st.entries, r.pos, TRUE)

\* lines 176-189: one iteration; none is made once the loop was left
cd_loop_step(f, st, cd_end, strict) ==
    IF st.done THEN st
    ELSE IF st.pos >= cd_end
    THEN CdLoop(IF strict THEN "InvalidFormat" ELSE "Ok", st.entries, st.pos, TRUE)
    ELSE cd_loop_entry(st, strict, read_cd_entry(f, st.pos))

\* lines 175-190: `left` iterations from the state st, made as the first half
\* of them followed by the rest
RECURSIVE cd_loop(_, _, _, _, _)
cd_loop(f, st, left, cd_end, strict) ==
    IF st.done \/ left = 0 THEN st
    ELSE IF left = 1 THEN cd_loop_step(f, st, cd_end, strict)
    ELSE cd_loop(f, cd_loop(f, st, left \div 2, cd_end, strict), left - left \div 2,
                 cd_end, strict)

\* lines 207-212: the loop is through, r is what it left
open_result(eocd, r) ==
    IF r.kind # "Ok" THEN [zip |-> ZipErr(r.kind, eocd), pos |-> r.pos]
    ELSE [zip |-> ZipOk(r.entries, eocd), pos |-> r.pos]

\* the open without the strict test of the declared entry count
open_with_eocd_uncounted(f, strict, eocd) ==
    IF eocd.kind # "Ok" THEN [zip |-> ZipErr(eocd.kind, eocd), pos |-> 0]
    ELSE open_result(eocd,
                     cd_loop(f, CdLoop("Ok", <<>>, eocd.cd_offset, FALSE),
                             Min(eocd.num_entries, MAX_CD_ENTRIES),
                             checked_add(eocd.cd_offset, eocd.cd_size), strict))

\* lines 158-190: find_eocd returned eocd
open_with_eocd(f, strict, eocd) ==
    IF eocd.kind # "Ok" THEN [zip |-> ZipErr(eocd.kind, eocd), pos |-> 0]
    ELSE IF strict /\ eocd.num_entries > MAX_CD_ENTRIES
    THEN [zip |-> ZipErr("CentralDirFull", eocd), pos |-> 0]
    ELSE open_result(eocd,
                     cd_loop(f, CdLoop("Ok", <<>>, eocd.cd_offset, FALSE),
                             Min(eocd.num_entries, MAX_CD_ENTRIES),
                             checked_add(eocd.cd_offset, eocd.cd_size), strict))

\* the reader and the cursor new_with_limits leaves: [zip, pos]
new_with_limits(f, l) ==
    open_with_eocd(f, l.some /\ l.strict, find_eocd(f, effective_max_eocd_scan(l)))

-----------------------------------------------------------------------------
(* crc32fast: a checksum of a byte sequence, fed whole (hash) or in chunks  *)
(* (Hasher::update).  The polynomial is replaced by a positional checksum   *)
(* small enough for TLC; like CRC32 it is 0 on the empty input and depends  *)
(* on every byte and its position.                                          *)

RECURSIVE hasher_update(_, _)
hasher_update(h, bytes) ==
    IF bytes = <<>> THEN h
    ELSE hasher_update((h * 31 + Head(bytes)) % 65521, Tail(bytes))

crc32_hash(bytes) == hasher_update(0, bytes)

-----------------------------------------------------------------------------
(* miniz_oxide::inflate::stream::inflate with DataFormat::Raw, MZFlush::None *)
(*                                                                          *)
(* A compressed stream is a sequence of bytes, each one symbol: 0 ends the   *)
(* stream, 255 is invalid data, 254 produces nothing (an empty block), 253   *)
(* repeats the last output byte twice (a match of length 2, distance 1),     *)
(* any other byte is a literal.  The inflater decodes into its dictionary    *)
(* (at most DictCap bytes a pass) and copies from there to the caller.       *)

DictCap == 3

InflateState_new == [dict |-> <<>>, status |-> "NeedsMoreInput", lastb |-> -1]

\* tinfl decompress: i symbols of `input` are consumed, `out` is decoded
RECURSIVE tinfl_decompress(_, _, _, _)
tinfl_decompress(input, i, out, lastb) ==
    IF i = Len(input)
    THEN [status |-> "NeedsMoreInput", consumed |-> i, out |-> out, lastb |-> lastb]
    ELSE LET t == input[i + 1]
         IN  IF t = 0
             THEN [status |-> "Done", consumed |-> i + 1, out |-> out, lastb |-> lastb]
             ELSE IF t = 255 \/ (t = 253 /\ lastb = -1)
             THEN [status |-> "Failed", consumed |-> i + 1, out |-> out, lastb |-> lastb]
             ELSE IF t = 254 THEN tinfl_decompress(input, i + 1, out, lastb)
             ELSE LET emit == IF t = 253 THEN <<lastb, lastb>> ELSE <<t>>
                  IN  IF Len(out) + Len(emit) > DictCap
                      THEN [status |-> "HasMoreOutput", consumed |-> i, out |-> out,
                            lastb |-> lastb]
                      ELSE tinfl_decompress(input, i + 1, out \o emit,
                                            emit[Len(emit)])

InflateResult(st, consumed, produced, status) ==
    [state |-> st, bytes_consumed |-> consumed, produced |-> produced, status |-> status]

RECURSIVE inflate_loop(_, _, _, _, _)

\* the pass has copied what fits: st1, consumed1 and produced1 are the state
\* and the counts after it, room_left the output space left
inflate_copied(next_in, cap, status, st1, consumed1, produced1, room_left) ==
    IF status = "Failed" THEN InflateResult(st1, consumed1, produced1, "Err")
    ELSE IF status = "NeedsMoreInput" /\ Len(next_in) = 0
    THEN InflateResult(st1, consumed1, produced1, "Err")
    ELSE IF status = "Done" \/ consumed1 = Len(next_in) \/ room_left = 0
               \/ st1.dict # <<>>
    THEN InflateResult(st1, consumed1, produced1,
                       IF status = "Done" /\ st1.dict = <<>> THEN "StreamEnd" ELSE "Ok")
    ELSE inflate_loop(st1, next_in, cap, consumed1, produced1)

\* the pass has decoded d; n of its bytes fit the output
inflate_decoded(next_in, cap, consumed, produced, d, n) ==
    inflate_copied(next_in, cap, d.status,
                   [dict |-> SubSeq(d.out, n + 1, Len(d.out)), status |-> d.status,
                    lastb |-> d.lastb],
                   consumed + d.consumed,
                   produced \o SubSeq(d.out, 1, n),
                   cap - Len(produced) - n)

\* cap - Len(produced) bytes of output space are left
inflate_room(next_in, cap, consumed, produced, d) ==
    inflate_decoded(next_in, cap, consumed, produced, d,
                    Min(Len(d.out), cap - Len(produced)))

\* inflate_loop: `consumed` input bytes and `produced` output bytes so far
inflate_loop(st, next_in, cap, consumed, produced) ==
    inflate_room(next_in, cap, consumed, produced,
                 tinfl_decompress(SubSeq(next_in, consumed + 1, Len(next_in)), 0, <<>>,
                                  st.lastb))

\* one call: input `next_in`, an output slice of `cap` bytes
inflate(st, next_in, cap) ==
    IF st.status = "Failed" THEN InflateResult(st, 0, <<>>, "Err")
    ELSE IF st.dict # <<>>
    THEN LET n == Min(Len(st.dict), cap)
             st1 == [st EXCEPT !.dict = SubSeq(st.dict, n + 1, Len(st.dict))]
         IN  InflateResult(st1, 0, SubSeq(st.dict, 1, n),
                           IF st.status = "Done" /\ st1.dict = <<>>
                              THEN "StreamEnd" ELSE "Ok")
    ELSE inflate_loop(st, next_in, cap, 0, <<>>)

-----------------------------------------------------------------------------
(* Entry reads *)

\* [kind, data_offset]
to_ascii_lowercase(b) == IF b >= 65 /\ b <= 90 THEN b + 32 ELSE b

eq_ignore_ascii_case(a, b) ==
    /\ Len(a) = Len(b)
    /\ \A k \in 1..Len(a) : to_ascii_lowercase(a[k]) = to_ascii_lowercase(b[k])

\* starts_with('/')
starts_with_slash(s) == s # <<>> /\ s[1] = 47

\* lines 495-498: the closure given to find
entry_matches(filename, name) ==
    \/ filename = name
    \/ eq_ignore_ascii_case(filename, name)
    \/ (starts_with_slash(name) /\ eq_ignore_ascii_case(filename, Tail(name)))
    \/ (starts_with_slash(filename) /\ eq_ignore_ascii_case(Tail(filename), name))

\* an entry lookup that keeps the last match
get_entry_last(entries, name) ==
    LET hits == {k \in 1..Len(entries) : entry_matches(entries[k].filename, name)}
    IN  IF hits = {} THEN 0 ELSE CHOOSE k \in hits : \A j \in hits : j <= k

\* lines 493-500: the index of Some(entry), 0 for None
get_entry(entries, name) ==
    LET hits == {k \in 1..Len(entries) : entry_matches(entries[k].filename, name)}
    IN  IF hits = {} THEN 0 ELSE CHOOSE k \in hits : \A j \in hits : k <= j

calc_data_offset(f, entry) ==
    LET offset == entry.local_header_offset
    IN  IF ~ReadOk(f, offset, 30) THEN [kind |-> "IoError", data_offset |-> 0]
        ELSE IF read_u32_le(f, offset) # SIG_LOCAL_FILE_HEADER
        THEN [kind |-> "InvalidFormat", data_offset |-> 0]
        ELSE [kind |-> "Ok",
              data_offset |-> offset + 30 + read_u16_le(f, offset + 26)
                                 + read_u16_le(f, offset + 28)]

\* the size test without its compressed_size disjunct
too_large_uncompressed(l, entry) ==
    l.some /\ entry.uncompressed_size > l.max_file_read_size

\* lines 541-548 and 677-684
file_too_large(l, entry) ==
    l.some /\ (\/ entry.uncompressed_size > l.max_file_read_size
               \/ entry.compressed_size > l.max_file_read_size)

\* the outcome of a read: Ok(n) or Err(kind), the bytes delivered to the
\* caller's buffer or writer (also on failure), and the cursor left behind
ReadResult(kind, n, data, p) ==
    [kind |-> kind, n |-> n, data |-> data, pos |-> p, iters |-> 0]

\* the result of a read that returned in the k-th iteration of its loop
Counted(r, k) == [r EXCEPT !.iters = k]

\* lines 575-580, 635-640, 711 and 771
\* a verification that accepts every checksum
crc_unverified(entry, calc_crc) == FALSE

crc_mismatch(entry, calc_crc) == entry.crc32 # 0 /\ calc_crc # entry.crc32

RECURSIVE read_deflated(_, _, _, _, _, _, _, _)

\* lines 612-631: r is what inflate returned
\* an inflate step that takes the stream's end without looking at what is left
read_inflated_lax(f, entry, buf_len, in_len, p1, remaining1, pending1, lp, r) ==
    LET pending2 == SubSeq(pending1, r.bytes_consumed + 1, Len(pending1))
        written == lp.written \o r.produced
    IN  IF r.status = "StreamEnd"
        THEN IF crc_mismatch(entry, crc32_hash(written))
             THEN Counted(ReadResult("CrcMismatch", 0, written, p1), lp.iters + 1)
             ELSE Counted(ReadResult("Ok", Len(written), written, p1), lp.iters + 1)
        ELSE IF r.status = "Ok" /\ ~(r.bytes_consumed = 0 /\ r.produced = <<>>)
        THEN read_deflated(f, entry, buf_len, in_len, p1, remaining1, pending2,
                           [state |-> r.state, written |-> written,
                            iters |-> lp.iters + 1])
        ELSE Counted(ReadResult("DecompressError", 0, written, p1), lp.iters + 1)

read_inflated_stalled(f, entry, buf_len, in_len, p1, remaining1, pending1, lp, r) ==
    LET pending2 == SubSeq(pending1, r.bytes_consumed + 1, Len(pending1))
        written == lp.written \o r.produced
    IN  IF r.status = "StreamEnd"
        THEN IF remaining1 # 0 \/ pending2 # <<>>
             THEN Counted(ReadResult("DecompressError", 0, written, p1), lp.iters + 1)
             ELSE IF crc_mismatch(entry, crc32_hash(written))
             THEN Counted(ReadResult("CrcMismatch", 0, written, p1), lp.iters + 1)
             ELSE Counted(ReadResult("Ok", Len(written), written, p1), lp.iters + 1)
        ELSE IF r.status = "Ok" /\ ~(r.bytes_consumed = 0 /\ r.produced = <<>>)
        THEN read_deflated(f, entry, buf_len, in_len, p1, remaining1, pending2,
                           [state |-> r.state, written |-> written,
                            iters |-> lp.iters + 1])
        ELSE IF r.status = "Ok"
        THEN Counted(ReadResult("Ok", Len(written), written, p1), lp.iters + 1)
        ELSE Counted(ReadResult("DecompressError", 0, written, p1), lp.iters + 1)

read_inflated(f, entry, buf_len, in_len, p1, remaining1, pending1, lp, r) ==
    LET pending2 == SubSeq(pending1, r.bytes_consumed + 1, Len(pending1))
        written == lp.written \o r.produced
    IN  IF r.status = "StreamEnd"
        THEN IF remaining1 # 0 \/ pending2 # <<>>
             THEN Counted(ReadResult("DecompressError", 0, written, p1), lp.iters + 1)
             ELSE IF crc_mismatch(entry, crc32_hash(written))
             THEN Counted(ReadResult("CrcMismatch", 0, written, p1), lp.iters + 1)
             ELSE Counted(ReadResult("Ok", Len(written), written, p1), lp.iters + 1)
        ELSE IF r.status = "Ok" /\ ~(r.bytes_consumed = 0 /\ r.produced = <<>>)
        THEN read_deflated(f, entry, buf_len, in_len, p1, remaining1, pending2,
                           [state |-> r.state, written |-> written,
                            iters |-> lp.iters + 1])
        ELSE Counted(ReadResult("DecompressError", 0, written, p1), lp.iters + 1)

\* lines 602-611: the input is refilled
read_refilled(f, entry, buf_len, in_len, p1, remaining1, pending1, lp) ==
    IF Len(lp.written) >= buf_len /\ (remaining1 > 0 \/ pending1 # <<>>)
    THEN Counted(ReadResult("BufferTooSmall", 0, lp.written, p1), lp.iters + 1)
    ELSE read_inflated(f, entry, buf_len, in_len, p1, remaining1, pending1, lp,
                       inflate(lp.state, pending1, buf_len - Len(lp.written)))

\* lines 592-632: the buffered inflate loop; lp = [state, written]
read_deflated(f, entry, buf_len, in_len, p, compressed_remaining, pending, lp) ==
    LET refill == pending = <<>> /\ compressed_remaining > 0
        take == Min(compressed_remaining, in_len)
    IN  IF refill /\ ~ReadOk(f, p, take)
        THEN Counted(ReadResult("IoError", 0, lp.written, p), lp.iters + 1)
        ELSE IF refill
        THEN read_refilled(f, entry, buf_len, in_len, p + take,
                           compressed_remaining - take, Slice(f, p, take), lp)
        ELSE read_refilled(f, entry, buf_len, in_len, p, compressed_remaining, pending, lp)

\* buf and input_buf are given by their lengths
\* the read without the seek to the entry's local header: the header is
\* looked for where the cursor is
read_file_unsought(f, l, entry, buf_len, in_len, p0) ==
    IF in_len = 0 THEN ReadResult("BufferTooSmall", 0, <<>>, p0)
    ELSE IF file_too_large(l, entry) THEN ReadResult("FileTooLarge", 0, <<>>, p0)
    ELSE IF entry.uncompressed_size > buf_len THEN ReadResult("BufferTooSmall", 0, <<>>, p0)
    ELSE LET off == calc_data_offset(f, [entry EXCEPT !.local_header_offset = p0])
         IN  IF off.kind # "Ok" THEN ReadResult(off.kind, 0, <<>>, p0)
             ELSE IF entry.method = METHOD_STORED
             THEN (IF entry.compressed_size > buf_len
                      \/ ~ReadOk(f, off.data_offset, entry.compressed_size)
                   THEN ReadResult("IoError", 0, <<>>, off.data_offset)
                   ELSE ReadResult("Ok", entry.compressed_size,
                                   Slice(f, off.data_offset, entry.compressed_size),
                                   off.data_offset + entry.compressed_size))
             ELSE ReadResult("UnsupportedCompression", 0, <<>>, off.data_offset)

read_file_with_scratch(f, l, entry, buf_len, in_len, p0) ==
    IF in_len = 0 THEN ReadResult("BufferTooSmall", 0, <<>>, p0)
    ELSE IF file_too_large(l, entry) THEN ReadResult("FileTooLarge", 0, <<>>, p0)
    ELSE IF entry.uncompressed_size > buf_len THEN ReadResult("BufferTooSmall", 0, <<>>, p0)
    ELSE LET off == calc_data_offset(f, entry)
         IN  IF off.kind # "Ok" THEN ReadResult(off.kind, 0, <<>>, entry.local_header_offset)
             ELSE IF entry.method = METHOD_STORED
             THEN LET size == entry.compressed_size
                  IN  IF size > buf_len
                      THEN ReadResult("BufferTooSmall", 0, <<>>, off.data_offset)
                      ELSE IF ~ReadOk(f, off.data_offset, size)
                      THEN ReadResult("IoError", 0, <<>>, off.data_offset)
                      ELSE LET data == Slice(f, off.data_offset, size)
                           IN  IF crc_mismatch(entry, crc32_hash(data))
                               THEN ReadResult("CrcMismatch", 0, data, off.data_offset + size)
                               ELSE ReadResult("Ok", size, data, off.data_offset + size)
             ELSE IF entry.method = METHOD_DEFLATED
             THEN read_deflated(f, entry, buf_len, in_len, off.data_offset,
                                entry.compressed_size, <<>>,
                                [state |-> InflateState_new, written |-> <<>>,
                                 iters |-> 0])
             ELSE ReadResult("UnsupportedCompression", 0, <<>>, off.data_offset)

read_file(f, l, entry, buf_len, p0) ==
    read_file_with_scratch(f, l, entry, buf_len, DEFAULT_ZIP_SCRATCH_BYTES, p0)

\* the first cached entry whose local header is at `offset`, 0 when none is
find_by_offset(entries, offset) ==
    LET at == {i \in 1..Len(entries) : entries[i].local_header_offset = offset}
    IN  IF at = {} THEN 0 ELSE CHOOSE i \in at : \A j \in at : i <= j

read_file_at_offset(f, l, entries, local_header_offset, buf_len, p0) ==
    IF find_by_offset(entries, local_header_offset) = 0
    THEN ReadResult("FileNotFound", 0, <<>>, p0)
    ELSE read_file(f, l, entries[find_by_offset(entries, local_header_offset)],
                   buf_len, p0)

\* lines 698-709: the chunked copy of a stored entry to the writer
RECURSIVE write_stored(_, _, _, _, _, _, _, _)
\* a copy that verifies the checksum before it writes the last chunk
write_stored_unwritten(f, entry, in_len, p, remaining, out, hasher, iters) ==
    IF remaining = 0
    THEN IF crc_mismatch(entry, hasher)
         THEN Counted(ReadResult("CrcMismatch", 0, out, p), iters)
         ELSE Counted(ReadResult("Ok", Len(out), out, p), iters)
    ELSE LET take == Min(remaining, in_len)
         IN  IF ~ReadOk(f, p, take)
             THEN Counted(ReadResult("IoError", 0, out, p), iters + 1)
             ELSE IF remaining = take
                     /\ crc_mismatch(entry, hasher_update(hasher, Slice(f, p, take)))
             THEN Counted(ReadResult("CrcMismatch", 0, out, p + take), iters + 1)
             ELSE write_stored(f, entry, in_len, p + take, remaining - take,
                               out \o Slice(f, p, take),
                               hasher_update(hasher, Slice(f, p, take)), iters + 1)

write_stored(f, entry, in_len, p, remaining, out, hasher, iters) ==
    IF remaining = 0
    THEN IF crc_mismatch(entry, hasher)
         THEN Counted(ReadResult("CrcMismatch", 0, out, p), iters)
         ELSE Counted(ReadResult("Ok", Len(out), out, p), iters)
    ELSE LET take == Min(remaining, in_len)
         IN  IF ~ReadOk(f, p, take)
             THEN Counted(ReadResult("IoError", 0, out, p), iters + 1)
             ELSE write_stored(f, entry, in_len, p + take, remaining - take,
                               out \o Slice(f, p, take),
                               hasher_update(hasher, Slice(f, p, take)), iters + 1)

RECURSIVE write_deflated(_, _, _, _, _, _, _, _)

\* lines 742-768: r is what inflate returned
write_inflated(f, entry, in_len, out_len, p1, remaining1, pending1, lp, r) ==
    LET pending2 == SubSeq(pending1, r.bytes_consumed + 1, Len(pending1))
        out == lp.out \o r.produced
        hasher == hasher_update(lp.hasher, r.produced)
    IN  IF r.status = "StreamEnd"
        THEN IF remaining1 # 0 \/ pending2 # <<>>
             THEN Counted(ReadResult("DecompressError", 0, out, p1), lp.iters + 1)
             ELSE IF crc_mismatch(entry, hasher)
             THEN Counted(ReadResult("CrcMismatch", 0, out, p1), lp.iters + 1)
             ELSE Counted(ReadResult("Ok", Len(out), out, p1), lp.iters + 1)
        ELSE IF r.status = "Ok" /\ ~(r.bytes_consumed = 0 /\ r.produced = <<>>)
        THEN write_deflated(f, entry, in_len, out_len, p1, remaining1, pending2,
                            [state |-> r.state, out |-> out, hasher |-> hasher,
                             iters |-> lp.iters + 1])
        ELSE Counted(ReadResult("DecompressError", 0, out, p1), lp.iters + 1)

\* lines 736-741: the input is refilled
write_refilled(f, entry, in_len, out_len, p1, remaining1, pending1, lp) ==
    write_inflated(f, entry, in_len, out_len, p1, remaining1, pending1, lp,
                   inflate(lp.state, pending1, out_len))

\* lines 726-769: the streamed inflate loop; lp = [state, out, hasher]
write_deflated(f, entry, in_len, out_len, p, compressed_remaining, pending, lp) ==
    LET refill == pending = <<>> /\ compressed_remaining > 0
        take == Min(compressed_remaining, in_len)
    IN  IF refill /\ ~ReadOk(f, p, take)
        THEN Counted(ReadResult("IoError", 0, lp.out, p), lp.iters + 1)
        ELSE IF refill
        THEN write_refilled(f, entry, in_len, out_len, p + take,
                            compressed_remaining - take, Slice(f, p, take), lp)
        ELSE write_refilled(f, entry, in_len, out_len, p, compressed_remaining, pending, lp)

\* the streamed read with every method but deflate copied as stored
write_any_method(f, l, entry, in_len, out_len, p0) ==
    IF in_len = 0 \/ out_len = 0 THEN ReadResult("BufferTooSmall", 0, <<>>, p0)
    ELSE IF file_too_large(l, entry) THEN ReadResult("FileTooLarge", 0, <<>>, p0)
    ELSE LET off == calc_data_offset(f, entry)
         IN  IF off.kind # "Ok" THEN ReadResult(off.kind, 0, <<>>, entry.local_header_offset)
             ELSE IF entry.method = METHOD_DEFLATED
             THEN write_deflated(f, entry, in_len, out_len, off.data_offset,
                                 entry.compressed_size, <<>>,
                                 [state |-> InflateState_new, out |-> <<>>, hasher |-> 0,
                                  iters |-> 0])
             ELSE write_stored(f, entry, in_len, off.data_offset, entry.compressed_size,
                               <<>>, 0, 0)

\* the writer is a Vec<u8>: write_all never fails
read_file_to_writer_with_scratch(f, l, entry, in_len, out_len, p0) ==
    IF in_len = 0 \/ out_len = 0 THEN ReadResult("BufferTooSmall", 0, <<>>, p0)
    ELSE IF file_too_large(l, entry) THEN ReadResult("FileTooLarge", 0, <<>>, p0)
    ELSE LET off == calc_data_offset(f, entry)
         IN  IF off.kind # "Ok" THEN ReadResult(off.kind, 0, <<>>, entry.local_header_offset)
             ELSE IF entry.method = METHOD_STORED
             THEN write_stored(f, entry, in_len, off.data_offset, entry.compressed_size,
                               <<>>, 0, 0)
             ELSE IF entry.method = METHOD_DEFLATED
             THEN write_deflated(f, entry, in_len, out_len, off.data_offset,
                                 entry.compressed_size, <<>>,
                                 [state |-> InflateState_new, out |-> <<>>, hasher |-> 0,
                                  iters |-> 0])
             ELSE ReadResult("UnsupportedCompression", 0, <<>>, off.data_offset)

read_file_to_writer(f, l, entry, p0) ==
    read_file_to_writer_with_scratch(f, l, entry, DEFAULT_ZIP_SCRATCH_BYTES,
                                     DEFAULT_ZIP_SCRATCH_BYTES, p0)

------------------------------------------------------------------------------
(* validate_mimetype and is_valid_epub; strings are their UTF-8 bytes        *)

\* "mimetype"
MIMETYPE_NAME ==
    <<109, 105, 109, 101, 116, 121, 112, 101>>

\* "application/epub+zip"
EPUB_MIMETYPE ==
    <<97, 112, 112, 108, 105, 99, 97, 116, 105, 111, 110, 47, 101, 112, 117,
      98, 43, 122, 105, 112>>

\* "mimetype file not found in archive"
MSG_NOT_FOUND ==
    <<109, 105, 109, 101, 116, 121, 112, 101, 32, 102, 105, 108, 101, 32,
      110, 111, 116, 32, 102, 111, 117, 110, 100, 32, 105, 110, 32, 97, 114,
      99, 104, 105, 118, 101>>

\* "mimetype file too large"
MSG_TOO_LARGE ==
    <<109, 105, 109, 101, 116, 121, 112, 101, 32, 102, 105, 108, 101, 32,
      116, 111, 111, 32, 108, 97, 114, 103, 101>>

\* "mimetype file is not valid UTF-8"
MSG_NOT_UTF8 ==
    <<109, 105, 109, 101, 116, 121, 112, 101, 32, 102, 105, 108, 101, 32,
      105, 115, 32, 110, 111, 116, 32, 118, 97, 108, 105, 100, 32, 85, 84,
      70, 45, 56>>

\* format!("expected 'application/epub+zip', got '{}'", content)
msg_expected_got(content) ==
    <<101, 120, 112, 101, 99, 116, 101, 100, 32, 39, 97, 112, 112, 108, 105,
      99, 97, 116, 105, 111, 110, 47, 101, 112, 117, 98, 43, 122, 105, 112,
      39, 44, 32, 103, 111, 116, 32, 39>>
        \o content \o <<39>>

\* core::str::from_utf8 succeeds; of the multi-byte forms none is drawn, so
\* a byte of 128 or more is one that begins no valid sequence
from_utf8_ok(bytes) == \A k \in 1..Len(bytes) : bytes[k] < 128

MimeResult(kind, msg, p) == [kind |-> kind, msg |-> msg, pos |-> p]

\* lines 874-888: the outcome of read_file, then the comparison
mimetype_checked(r) ==
    IF r.kind # "Ok" THEN MimeResult(r.kind, <<>>, r.pos)
    ELSE IF ~from_utf8_ok(r.data) THEN MimeResult("InvalidMimetype", MSG_NOT_UTF8, r.pos)
    ELSE IF r.data # EPUB_MIMETYPE
    THEN MimeResult("InvalidMimetype", msg_expected_got(r.data), r.pos)
    ELSE MimeResult("Ok", <<>>, r.pos)

\* lines 862-874: the size test, then read_file into a buffer of the entry's size
mimetype_of(f, l, entry, p0) ==
    IF l.some /\ entry.uncompressed_size > l.max_mimetype_size
    THEN MimeResult("InvalidMimetype", MSG_TOO_LARGE, p0)
    ELSE mimetype_checked(read_file_with_scratch(f, l, entry, entry.uncompressed_size,
                                                 DEFAULT_ZIP_SCRATCH_BYTES, p0))

\* a validation that stops at finding the entry
validate_found_only(f, l, entries, p0) ==
    IF get_entry(entries, MIMETYPE_NAME) = 0
    THEN MimeResult("InvalidMimetype", MSG_NOT_FOUND, p0)
    ELSE MimeResult("Ok", <<>>, p0)

validate_mimetype(f, l, entries, p0) ==
    IF get_entry(entries, MIMETYPE_NAME) = 0
    THEN MimeResult("InvalidMimetype", MSG_NOT_FOUND, p0)
    ELSE mimetype_of(f, l, entries[get_entry(entries, MIMETYPE_NAME)], p0)

is_valid_epub(f, l, entries, p0) == validate_mimetype(f, l, entries, p0).kind = "Ok"

\* num_entries(), entries() and get_entry_by_index() of the archive z
num_entries_declared(z) == z.num_entries

num_entries(z) == Min(z.num_entries, Len(z.entries))

entries_iter(z) == z.entries

\* Option<&CdEntry>: index counts from 0
get_entry_by_index(z, index) ==
    IF index < Len(z.entries) THEN [some |-> TRUE, entry |-> z.entries[index + 1]]
    ELSE [some |-> FALSE, entry |-> CdEntry_new]

-----------------------------------------------------------------------------
(* Archive builders, after the unit tests' build_single_file_zip,           *)
(* build_single_file_zip64 and add_zip_comment                              *)

\* an archived file: the local header's and the central directory's fields
Desc(name, method, data, compressed_size, uncompressed_size, crc) ==
    [name |-> name, method |-> method, data |-> data,
     compressed_size |-> compressed_size, uncompressed_size |-> uncompressed_size,
     crc |-> crc]

LocalRecord(d) ==
    le32(SIG_LOCAL_FILE_HEADER) \o le16(20) \o le16(0) \o le16(d.method) \o le16(0)
        \o le16(0) \o le32(d.crc) \o le32(d.compressed_size) \o le32(d.uncompressed_size)
        \o le16(Len(d.name)) \o le16(0) \o d.name \o d.data

\* sent: the fields that carry the 0xFFFFFFFF sentinel; extra: the extra field
CdRecord(d, local_offset, sent, extra, comment) ==
    le32(SIG_CD_ENTRY) \o le16(20) \o le16(20) \o le16(0) \o le16(d.method) \o le16(0)
        \o le16(0) \o le32(d.crc)
        \o (IF "compressed_size" \in sent THEN FF(4) ELSE le32(d.compressed_size))
        \o (IF "uncompressed_size" \in sent THEN FF(4) ELSE le32(d.uncompressed_size))
        \o le16(Len(d.name)) \o le16(Len(extra)) \o le16(Len(comment)) \o le16(0)
        \o le16(0) \o le32(0)
        \o (IF "local_header_offset" \in sent THEN FF(4) ELSE le32(local_offset))
        \o d.name \o extra \o comment

EocdRecord(count, cd_size_bytes, cd_offset_bytes, comment_len, comment) ==
    le32(SIG_EOCD) \o le16(0) \o le16(0) \o le16(count) \o le16(count)
        \o cd_size_bytes \o cd_offset_bytes \o le16(comment_len) \o comment

Zip64EocdRecord(sig, disk_number, disk_with_cd_start, count, cd_size, cd_offset) ==
    le32(sig) \o le64(44) \o le16(45) \o le16(45) \o le32(disk_number)
        \o le32(disk_with_cd_start) \o le64(count) \o le64(count) \o le64(cd_size)
        \o le64(cd_offset)

Zip64Locator(disk, zip64_eocd_offset, total_disks) ==
    le32(SIG_ZIP64_EOCD_LOCATOR) \o le32(disk) \o le64(zip64_eocd_offset)
        \o le32(total_disks)

\* build_single_file_zip with the EOCD's count, the comment and the
\* comment-length field chosen by the caller
build_single_file_zip(d, count, comment_len, comment) ==
    LET local == LocalRecord(d)
        cd == CdRecord(d, 0, {}, <<>>, <<>>)
    IN  local \o cd
            \o EocdRecord(count, le32(Len(cd)), le32(Len(local)), comment_len, comment)

\* add_zip_comment
add_zip_comment(d, comment) == build_single_file_zip(d, 1, Len(comment), comment)

\* build_single_file_zip64 with the parts a malformed archive varies:
\* z.sent (EOCD fields carrying a sentinel), z.locator, z.disk, z.total_disks,
\* z.sig64, z.disk_number, z.disk_with_cd_start; z.cd_grow is added to the
\* ZIP64 record's cd_size and z.cd_huge writes its cd_offset as 2^64 - 1;
\* z.count32 and z.shrink32 set the EOCD's own count and cd_size apart from
\* the ZIP64 record's
build_single_file_zip64(d, z) ==
    LET local == LocalRecord(d)
        all == {"uncompressed_size", "compressed_size", "local_header_offset"}
        cd == CdRecord(d, 0, all,
                       le16(1) \o le16(24) \o le64(d.uncompressed_size)
                           \o le64(d.compressed_size) \o le64(0),
                       <<>>)
        zip64_eocd_offset == Len(local) + Len(cd)
        zip64 == Zip64EocdRecord(z.sig64, z.disk_number, z.disk_with_cd_start, 1,
                                 Len(cd) + z.cd_grow, Len(local))
    IN  local \o cd
            \o (IF z.cd_huge THEN SubSeq(zip64, 1, 48) \o FF(8) ELSE zip64)
            \o (IF z.locator
                   THEN Zip64Locator(z.disk, zip64_eocd_offset, z.total_disks)
                   ELSE Rep(0, 20))
            \o EocdRecord(IF "count" \in z.sent THEN u16_MAX ELSE z.count32,
                          IF "cd_size" \in z.sent THEN FF(4)
                                                  ELSE le32(Len(cd) - z.shrink32),
                          IF "cd_offset" \in z.sent THEN FF(4) ELSE le32(Len(local)),
                          0, <<>>)

\* an archive without ZIP64 records whose EOCD carries the sentinels `sent`
build_sentinel_zip(d, sent) ==
    LET local == LocalRecord(d)
        cd == CdRecord(d, 0, {}, <<>>, <<>>)
    IN  local \o cd
            \o EocdRecord(IF "count" \in sent THEN u16_MAX ELSE 1,
                          IF "cd_size" \in sent THEN FF(4) ELSE le32(Len(cd)),
                          IF "cd_offset" \in sent THEN FF(4) ELSE le32(Len(local)),
                          0, <<>>)

\* build_single_file_zip with the EOCD's cd_size and cd_offset off by
\* size_grow and offset_grow
build_grown_zip(d, size_grow, offset_grow) ==
    LET local == LocalRecord(d)
        cd == CdRecord(d, 0, {}, <<>>, <<>>)
    IN  local \o cd
            \o EocdRecord(1, le32(Len(cd) + size_grow), le32(Len(local) + offset_grow),
                          0, <<>>)

\* the name of the k-th record of an archive of many records
ManyName(k) == <<1 + (k % 100), 1 + (k \div 100)>>

\* the central-directory records lo..hi of an archive of many records; the
\* k-th carries k - 1 as its local header offset
RECURSIVE ManyRecords(_, _)
ManyRecords(lo, hi) ==
    IF lo > hi THEN <<>>
    ELSE IF lo = hi
    THEN CdRecord(Desc(ManyName(lo), METHOD_STORED, <<>>, 0, 0, 0), lo - 1, {}, <<>>, <<>>)
    ELSE ManyRecords(lo, (lo + hi) \div 2) \o ManyRecords((lo + hi) \div 2 + 1, hi)

\* an archive of n central-directory records, declared in full by its EOCD
\* the 64-bit values of the fields in sent, in the order of the 0x0001 field
Zip64Values(d, sent) ==
    (IF "uncompressed_size" \in sent THEN le64(d.uncompressed_size) ELSE <<>>)
        \o (IF "compressed_size" \in sent THEN le64(d.compressed_size) ELSE <<>>)
        \o (IF "local_header_offset" \in sent THEN le64(0) ELSE <<>>)

\* the extra area of a directory record whose fields in sent hold 0xFFFFFFFF
Zip64Extra(d, sent, kind) ==
    LET vals == Zip64Values(d, sent)
        all == Zip64Values(d, {"uncompressed_size", "compressed_size",
                               "local_header_offset"})
    IN  CASE kind = "none" -> <<>>
          [] kind = "exact" -> le16(1) \o le16(Len(vals)) \o vals
          [] kind = "short" ->
                le16(1) \o le16(Len(vals) - 8) \o SubSeq(vals, 1, Len(vals) - 8)
          [] kind = "long" -> le16(1) \o le16(Len(vals) + 8) \o vals \o le64(7)
          [] kind = "full" -> le16(1) \o le16(Len(all)) \o all
          [] kind = "after_other" ->
                le16(2) \o le16(2) \o <<9, 9>> \o le16(1) \o le16(Len(vals)) \o vals
          [] OTHER -> le16(2) \o le16(Len(vals)) \o vals

\* build_single_file_zip64's directory record, under a 32-bit end record
build_zip64_entry_zip(d, sent, kind) ==
    LET local == LocalRecord(d)
        cd == CdRecord(d, 0, sent, Zip64Extra(d, sent, kind), <<>>)
    IN  local \o cd \o EocdRecord(1, le32(Len(cd)), le32(Len(local)), 0, <<>>)

RECURSIVE NamedRecords(_, _)
NamedRecords(names, k) ==
    IF k > Len(names) THEN <<>>
    ELSE CdRecord(Desc(names[k], METHOD_STORED, <<>>, 0, 0, 0), k - 1, {}, <<>>, <<>>)
             \o NamedRecords(names, k + 1)

\* an archive of one directory record for each name, in order
build_named_zip(names) ==
    LET cd == NamedRecords(names, 1)
    IN  cd \o EocdRecord(Len(names), le32(Len(cd)), le32(0), 0, <<>>)

build_many_zip(n) ==
    LET cd == ManyRecords(1, n)
    IN  cd \o EocdRecord(n, le32(Len(cd)), le32(0), 0, <<>>)

\* an archive that is an EOCD record alone
build_empty_zip(count) == EocdRecord(count, le32(0), le32(0), 0, <<>>)

-----------------------------------------------------------------------------
(* The archives and limits Init draws from *)

MaxContent == 2      \* stored contents have at most this many bytes
MaxBody == 2         \* deflate streams have at most this many symbols before their end
MaxComment == 3      \* plain ZIP comments have at most this many bytes

SeqsUpTo(S, n) == UNION {[1..k -> S] : k \in 0..n}

\* what a deflate stream decodes to, up to its end or its first invalid symbol
RECURSIVE Decoded(_, _)
Decoded(stream, out) ==
    IF stream = <<>> \/ Head(stream) = 0 \/ Head(stream) = 255 THEN out
    ELSE IF Head(stream) = 254 THEN Decoded(Tail(stream), out)
    ELSE IF Head(stream) = 253
    THEN (IF out = <<>> THEN out
          ELSE Decoded(Tail(stream), out \o <<out[Len(out)], out[Len(out)]>>))
    ELSE Decoded(Tail(stream), Append(out, Head(stream)))

NameA == <<97>>

\* the declared sizes are off by dc and du, the recorded crc is absent (0),
\* right or wrong
Declared(method, data, content, dc, du, crc) ==
    Desc(NameA, method, data, Len(data) + dc, Len(content) + du,
         CASE crc = "none" -> 0
           [] crc = "good" -> crc32_hash(content)
           [] OTHER -> crc32_hash(content) + 1)

Variants ==
    {<<0, 0, "none">>, <<0, 0, "good">>, <<0, 0, "bad">>,
     <<1, 0, "none">>, <<-1, 0, "none">>, <<0, 1, "none">>, <<0, -1, "none">>,
     <<1, 0, "good">>, <<0, 1, "good">>}

StoredDescs ==
    {Declared(METHOD_STORED, c, c, v[1], v[2], v[3]) :
        c \in SeqsUpTo({1, 2}, MaxContent),
        v \in Variants}

DeflateStreams ==
    {body \o tail : body \in SeqsUpTo({1, 253}, MaxBody),
                    tail \in {<<>>, <<0>>, <<0, 1>>, <<254, 0>>, <<255>>}}

DeflateDescs ==
    {Declared(METHOD_DEFLATED, s, Decoded(s, <<>>), v[1], v[2], v[3]) :
        s \in DeflateStreams, v \in Variants}

\* a method that is neither stored nor deflated
OtherDescs == {Declared(m, <<1>>, <<1>>, 0, 0, "good") : m \in {1, 12}}

WellSized(d) == d.compressed_size >= 0 /\ d.uncompressed_size >= 0

ReadArchives ==
    {build_single_file_zip(d, 1, 0, <<>>) :
        d \in {x \in StoredDescs \cup DeflateDescs \cup OtherDescs : WellSized(x)}}

BaseDesc == Declared(METHOD_STORED, <<1>>, <<1>>, 0, 0, "good")

\* a well-formed 22-byte EOCD record, as a comment may hold one
FakeEocd == EocdRecord(0, le32(0), le32(0), 0, <<>>)

Comments ==
    {Rep(65, n) : n \in 0..MaxComment}
        \cup {le32(SIG_EOCD) \o Rep(65, n) : n \in 0..MaxComment}
        \cup {FakeEocd}

CommentArchives ==
    {build_single_file_zip(BaseDesc, 1, Len(c) + dl, c) : c \in Comments, dl \in {0, 1}}

Zip64Shapes ==
    [sent : SUBSET {"count", "cd_size", "cd_offset"},
     locator : BOOLEAN,
     disk : {0},
     total_disks : {1},
     sig64 : {SIG_ZIP64_EOCD},
     disk_number : {0},
     disk_with_cd_start : {0},
     cd_grow : {0},
     cd_huge : {FALSE},
     count32 : {1},
     shrink32 : {0}]

\* ZIP64 archives with a locator whose disk fields and whose record's
\* signature and disk fields vary
DiskShapes ==
    [sent : {{}, {"cd_offset"}},
     locator : {TRUE},
     disk : {0, 1},
     total_disks : {0, 1, 2},
     sig64 : {SIG_ZIP64_EOCD, SIG_EOCD},
     disk_number : {0, 1},
     disk_with_cd_start : {0, 1},
     cd_grow : {0},
     cd_huge : {FALSE},
     count32 : {1},
     shrink32 : {0}]

\* single-disk ZIP64 archives whose record places the central directory up
\* to the EOCD (cd_grow = 76: the record and the locator lie in between), one
\* byte past it, or at an offset no file reaches
Zip64CdShapes ==
    [sent : {{}, {"cd_offset"}},
     locator : {TRUE},
     disk : {0},
     total_disks : {1},
     sig64 : {SIG_ZIP64_EOCD},
     disk_number : {0, 1},
     disk_with_cd_start : {0},
     cd_grow : {0, 76, 77},
     cd_huge : BOOLEAN,
     count32 : {0, 1},
     shrink32 : {0, 1}]

Zip64CdArchives == {build_single_file_zip64(BaseDesc, z) : z \in Zip64CdShapes}

GrownArchives ==
    {build_grown_zip(BaseDesc, sg, og) : sg \in {-1, 0, 1}, og \in {-1, 0, 1}}

\* the shape build_single_file_zip64 gives: every EOCD field a sentinel
Zip64TestShape ==
    [sent |-> {"count", "cd_size", "cd_offset"}, locator |-> TRUE, disk |-> 0,
     total_disks |-> 1, sig64 |-> SIG_ZIP64_EOCD, disk_number |-> 0,
     disk_with_cd_start |-> 0, cd_grow |-> 0, cd_huge |-> FALSE, count32 |-> 1,
     shrink32 |-> 0]

\* test_zip64_single_file_archive_is_readable, for every small content
Zip64ReadArchives ==
    {build_single_file_zip64(Declared(METHOD_STORED, c, c, 0, 0, "good"), Zip64TestShape) :
        c \in SeqsUpTo({1, 2}, MaxContent)}

\* test_strict_rejects_too_many_cd_entries: one record, the EOCD declares
\* MAX_CD_ENTRIES + 1 (or exactly MAX_CD_ENTRIES)
OverDeclaredArchives ==
    {build_single_file_zip(BaseDesc, n, 0, <<>>) : n \in {MAX_CD_ENTRIES, MAX_CD_ENTRIES + 1}}

\* archives that hold as many records as they declare
ManyArchives == {build_many_zip(n) : n \in {MAX_CD_ENTRIES, MAX_CD_ENTRIES + 1}}

DiskArchives == {build_single_file_zip64(BaseDesc, z) : z \in DiskShapes}

Zip64Archives ==
    {build_single_file_zip64(BaseDesc, z) : z \in Zip64Shapes}
        \cup {build_sentinel_zip(BaseDesc, sent) : sent \in SUBSET {"count", "cd_size", "cd_offset"}}
        \cup {build_empty_zip(count) : count \in {0, u16_MAX}}

\* no limits, and limits that the entries of two bytes exceed
ReadLimits == {NoLimits, ZipLimits_new(1, 1)}

\* caps handed to with_max_eocd_scan and written in struct literals
EocdScanCaps == {0, 3, 4, 5, 21, 22, 23, 24, 26, 30, MAX_EOCD_SCAN, MAX_EOCD_SCAN + 1}

\* no limits, lenient limits and strict limits
StrictLimits == {NoLimits, ZipLimits_new(4, 4), with_strict(ZipLimits_new(4, 4), TRUE)}

ScanLimits ==
    {NoLimits}
        \cup {with_max_eocd_scan(ZipLimits_new(4, 4), c) : c \in EocdScanCaps}
        \cup {ZipLimits_literal(4, 4, s, c) : s \in BOOLEAN, c \in EocdScanCaps}

\* a source over the bytes of a whose reads touching the k-th byte fail
FailingAt(a, k) == [a EXCEPT ![k] = Unreadable]

FaultBases ==
    {build_single_file_zip(BaseDesc, 1, 0, <<>>),
     build_single_file_zip(Declared(METHOD_DEFLATED, <<1, 0>>, <<1>>, 0, 0, "good"),
                           1, 0, <<>>),
     build_single_file_zip64(BaseDesc, Zip64TestShape)}

FaultyArchives == UNION {{FailingAt(a, k) : k \in 1..Len(a)} : a \in FaultBases}

\* file names a, A, /a, /A, b, ` and /
EntryNames == {<<97>>, <<65>>, <<47, 97>>, <<47, 65>>, <<98>>, <<96>>, <<47>>}

NamedArchives ==
    {build_named_zip(ns) : ns \in SeqsUpTo(EntryNames, 2)}
        \cup {build_named_zip(<<x, y, z>>) : x, y, z \in {<<98>>, <<65>>, <<47, 97>>}}

\* "text/plain"
TEXT_PLAIN == <<116, 101, 120, 116, 47, 112, 108, 97, 105, 110>>

\* mimetype, /Mimetype and a
MimeNames ==
    {MIMETYPE_NAME, <<47, 77, 105, 109, 101, 116, 121, 112, 101>>, NameA}

\* the required content, text/plain, nothing, and a byte that is not UTF-8
MimeContents == {EPUB_MIMETYPE, TEXT_PLAIN, <<>>, <<200>>}

MimeDescs ==
    {Desc(n, mc[1], IF mc[1] = METHOD_STORED THEN c ELSE c \o <<0>>,
          IF mc[1] = METHOD_STORED THEN Len(c) ELSE Len(c) + 1, Len(c),
          CASE mc[2] = "none" -> 0
            [] mc[2] = "good" -> crc32_hash(c)
            [] OTHER -> crc32_hash(c) + 1) :
        n \in MimeNames, c \in MimeContents,
        mc \in {<<METHOD_STORED, "good">>, <<METHOD_STORED, "bad">>,
                <<METHOD_DEFLATED, "good">>, <<METHOD_DEFLATED, "none">>}}

MimeArchives == {build_single_file_zip(d, 1, 0, <<>>) : d \in MimeDescs}

MimeLimits ==
    {NoLimits, ZipLimits_new(64, 64), ZipLimits_new(64, 4), ZipLimits_new(4, 64)}

\* names of 256 and 257 letters, of 86 bytes that are not UTF-8, and no name
LongNames ==
    {Rep(97, MAX_FILENAME_LEN), Rep(97, MAX_FILENAME_LEN + 1), Rep(255, 86), <<>>}

\* archives of two records, the second named b
LongNameArchives == {build_named_zip(<<n, <<98>>>>) : n \in LongNames}

\* a DEFLATE entry of 4 compressed bytes that decode to 5, declared to
\* decode to 1, 4 or 5
ExpandingDescs ==
    {Desc(NameA, METHOD_DEFLATED, <<1, 253, 253, 0>>, 4, u, 0) : u \in {1, 4, 5}}

ExpandingArchives == {build_single_file_zip(d, 1, 0, <<>>) : d \in ExpandingDescs}

Zip64ExtraKinds == {"none", "exact", "short", "long", "full", "after_other", "other_id"}

Zip64EntryArchives ==
    {build_zip64_entry_zip(Declared(METHOD_DEFLATED, <<1, 2, 0>>, <<1, 2>>, 0, 0, "good"),
                           sk[1], sk[2]) :
        sk \in {x \in (SUBSET {"uncompressed_size", "compressed_size",
                               "local_header_offset"}) \X Zip64ExtraKinds :
                    x[2] = "short" => x[1] # {}}}

FaultLimits ==
    {NoLimits,
     with_max_eocd_scan(ZipLimits_new(4, 4), EOCD_MIN_SIZE),
     with_strict(with_max_eocd_scan(ZipLimits_new(4, 4), EOCD_MIN_SIZE), TRUE)}

Scenarios ==
    (ReadArchives \X ReadLimits)
        \cup (FaultyArchives \X FaultLimits)
        \cup (NamedArchives \X {NoLimits})
        \cup (MimeArchives \X MimeLimits)
        \cup (ExpandingArchives \X {NoLimits, ZipLimits_new(4, 4)})
        \cup (LongNameArchives \X {NoLimits, with_strict(ZipLimits_new(4, 4), TRUE)})
        \cup (Zip64EntryArchives \X {NoLimits, with_strict(ZipLimits_new(4, 4), TRUE)})
        \cup (CommentArchives \X ScanLimits)
        \cup (Zip64Archives \X ScanLimits)
        \cup (DiskArchives \X ReadLimits)
        \cup (Zip64ReadArchives \X ReadLimits)
        \cup ((OverDeclaredArchives \cup ManyArchives) \X StrictLimits)
        \cup ((Zip64CdArchives \cup GrownArchives) \X StrictLimits)

-----------------------------------------------------------------------------
(* The render engine.  A chapter is the sequence of the heights of its      *)
(* laid-out blocks; pagination fills each page greedily up to the viewport. *)
(* One chapter render walks the states                                      *)
(*   Init -> CacheProbe -> (CacheHit -> Done)                               *)
(*         | (CacheMiss -> Reflow -> Paginate -> Overlay -> CacheStore ->   *)
(*            Done),                                                        *)
(* with Cancelled and Error(e) reachable from every state but Done.  The    *)
(* work of a state is done by the step that leaves it; Paginate finishes    *)
(* one page per step and hands it to the operation's consumer: the          *)
(* collecting Vec, the sink, or the caller of next().                       *)

MaxBlocks == 3         \* a chapter has at most this many blocks
MaxBlockHeight == 2    \* a block is at most this high
Viewport == 2          \* the height of a page
MaxPagesLimit == 3     \* max_pages_in_memory ranges over 1..MaxPagesLimit
MaxLoads == 2          \* calls made against one cache store
MaxPolls == 2          \* next() calls made on an exhausted iterator

\* the blocks of one page starting at block `cursor`: at least one block,
\* then as many more as still fit in `room`
RECURSIVE take_blocks(_, _, _)
take_blocks(blocks, cursor, room) ==
    IF cursor >= Len(blocks) \/ blocks[cursor + 1] > room THEN <<>>
    ELSE <<blocks[cursor + 1]>> \o take_blocks(blocks, cursor + 1, room - blocks[cursor + 1])

RenderPage(chapter_page_index, first_block, blocks) ==
    [chapter_page_index |-> chapter_page_index, first_block |-> first_block,
     blocks |-> blocks, overlay_items |-> <<>>]

\* the page that starts at block `cursor` (cursor < Len(blocks))
next_page(blocks, cursor, chapter_page_index) ==
    RenderPage(chapter_page_index, cursor,
               <<blocks[cursor + 1]>>
                   \o take_blocks(blocks, cursor + 1, Viewport - blocks[cursor + 1]))

\* the whole chapter paginated from block `cursor` on
RECURSIVE layout(_, _, _)
layout(blocks, cursor, chapter_page_index) ==
    IF cursor >= Len(blocks) THEN <<>>
    ELSE LET page == next_page(blocks, cursor, chapter_page_index)
         IN  <<page>> \o layout(blocks, cursor + Len(page.blocks), chapter_page_index + 1)

chapter_count(book) == Len(book)

page_count(book, i) == IF i < chapter_count(book) THEN Len(layout(book[i + 1], 0, 0)) ELSE 0

\* Option<Vec<RenderPage>>
None == [some |-> FALSE, pages |-> <<>>]
Some(pages) == [some |-> TRUE, pages |-> pages]

\* the cache store of the tests: it counts its calls and keeps one vector,
\* whatever the profile and the chapter index
CacheSpy_default == [loads |-> 0, stores |-> 0, cached_pages |-> None]

load_chapter_pages(cache) == [cache EXCEPT !.loads = @ + 1]

store_chapter_pages(cache, pages) ==
    [cache EXCEPT !.stores = @ + 1, !.cached_pages = Some(pages)]

IdleRun ==
    [op |-> "none", chapter |-> 0, start |-> 0, end |-> 0, pc |-> "Idle",
     cursor |-> 0, page_index |-> 0, out |-> <<>>, items |-> <<>>, result |-> "",
     returned |-> <<>>, loads0 |-> 0, stores0 |-> 0, cached0 |-> None, hit |-> FALSE,
     sunk_at_cancel |-> -1, polls |-> 0]

\* an engine whose MemoryBudget has max_pages_in_memory = k, a book, a cache
\* store and a cancel token
RenderState(book, k) ==
    [book |-> book, max_pages_in_memory |-> k, cache |-> CacheSpy_default,
     token |-> FALSE, run |-> IdleRun]

RenderIdle == RenderState(<<>>, 1)

Collecting == {"prepare_chapter", "prepare_chapter_page_range",
               "prepare_chapter_with_config_collect"}
Iterating == {"prepare_chapter_iter", "prepare_chapter_iter_streaming"}
Terminal == {"Done", "Cancelled", "Error"}

\* RenderConfig::with_cache: the only operation here that is handed a store
uses_cache(op) == op = "prepare_chapter_with_config_collect"

\* the start of an operation: a store lives for a run of calls made with it,
\* a token for the call it is handed to
begin(rd, op, chapter, start, end, already_cancelled) ==
    LET cache == IF uses_cache(op) THEN rd.cache ELSE CacheSpy_default
    IN  [rd EXCEPT
            !.cache = cache,
            !.token = already_cancelled,
            !.run = [IdleRun EXCEPT
                        !.op = op, !.chapter = chapter, !.start = start, !.end = end,
                        !.pc = "Init",
                        !.loads0 = cache.loads, !.stores0 = cache.stores,
                        !.cached0 = cache.cached_pages,
                        !.sunk_at_cancel = IF already_cancelled THEN 0 ELSE -1]]

\* a token that never reports a cancellation
never_cancelled(rd) == FALSE

\* token.is_cancelled(), polled by prepare_chapter_with_cancel at every stage
\* transition and between pages
is_cancelled(rd) == rd.run.op = "prepare_chapter_with_cancel" /\ rd.token

fail(rd, kind) ==
    [rd EXCEPT !.run.pc = IF kind = "Cancelled" THEN "Cancelled" ELSE "Error",
               !.run.result = kind,
               !.run.returned = <<>>,
               !.run.items = IF rd.run.op = "prepare_chapter_iter_streaming"
                             THEN Append(@, "Err") ELSE @]

goto(rd, pc) == [rd EXCEPT !.run.pc = pc]

\* a limit check that lets one page too many through
exceeds_limit_by_two(n, k) == n > k + 1

\* the collecting forms hold at most max_pages_in_memory pages
exceeds_limit(n, k) == n > k

\* a range test that forgets where the range starts
in_range_from_zero(index, start, end) == index < end

\* prepare_chapter_page_range keeps the pages start <= index < end
in_range(index, start, end) == start <= index /\ index < end

\* the consumers of a finished page
collect_page(rd, page) ==
    IF rd.run.op = "prepare_chapter_page_range"
           /\ ~in_range(page.chapter_page_index, rd.run.start, rd.run.end)
    THEN rd
    ELSE IF exceeds_limit(Len(rd.run.out) + 1, rd.max_pages_in_memory)
    THEN fail(rd, "LimitExceeded")
    ELSE [rd EXCEPT !.run.out = Append(@, page)]

sink_page(rd, page) == [rd EXCEPT !.run.out = Append(@, page)]

\* a yield that puts the new page before the earlier ones
yield_page_first(rd, page) ==
    [rd EXCEPT !.run.out = <<page>> \o @, !.run.items = Append(@, "Ok")]

yield_page(rd, page) ==
    [rd EXCEPT !.run.out = Append(@, page), !.run.items = Append(@, "Ok")]

deliver(rd, page) ==
    IF rd.run.op \in Collecting THEN collect_page(rd, page)
    ELSE IF rd.run.op \in Iterating THEN yield_page(rd, page)
    ELSE sink_page(rd, page)

\* Init -> CacheProbe
start_probe(rd) ==
    IF is_cancelled(rd) THEN fail(rd, "Cancelled") ELSE goto(rd, "CacheProbe")

\* CacheProbe -> CacheHit | CacheMiss: with a store, load_chapter_pages
cache_probe(rd) ==
    IF is_cancelled(rd) THEN fail(rd, "Cancelled")
    ELSE IF ~uses_cache(rd.run.op) THEN goto(rd, "CacheMiss")
    ELSE LET loaded == load_chapter_pages(rd.cache)
         IN  [rd EXCEPT !.cache = loaded,
                        !.run.hit = loaded.cached_pages.some,
                        !.run.pc = IF loaded.cached_pages.some THEN "CacheHit"
                                   ELSE "CacheMiss"]

\* CacheHit -> Done: the cached vector, without layout work
cache_hit(rd) ==
    [rd EXCEPT !.run.pc = "Done", !.run.result = "Ok",
               !.run.out = rd.cache.cached_pages.pages,
               !.run.returned = rd.cache.cached_pages.pages]

\* a miss that goes on to pagination without the reflow
cache_miss_unreflowed(rd) ==
    IF is_cancelled(rd) THEN fail(rd, "Cancelled") ELSE goto(rd, "Paginate")

\* CacheMiss -> Reflow
cache_miss(rd) ==
    IF is_cancelled(rd) THEN fail(rd, "Cancelled") ELSE goto(rd, "Reflow")

\* Reflow -> Paginate: the chapter is read and reflowed into blocks
reflow(rd) ==
    IF is_cancelled(rd) THEN fail(rd, "Cancelled")
    ELSE IF rd.run.chapter >= chapter_count(rd.book) THEN fail(rd, "ChapterOutOfRange")
    ELSE goto(rd, "Paginate")

\* Paginate: one more page, or on to Overlay when the chapter (or the
\* requested range) is through; an iterator then answers None
paginate(rd) ==
    LET blocks == rd.book[rd.run.chapter + 1]
        through == \/ rd.run.cursor >= Len(blocks)
                   \/ /\ rd.run.op = "prepare_chapter_page_range"
                      /\ rd.run.page_index >= rd.run.end
    IN  IF is_cancelled(rd) THEN fail(rd, "Cancelled")
        ELSE IF through
        THEN [rd EXCEPT !.run.pc = "Overlay",
                        !.run.items = IF rd.run.op \in Iterating
                                      THEN Append(@, "None") ELSE @]
        ELSE LET page == next_page(blocks, rd.run.cursor, rd.run.page_index)
                 moved == [rd EXCEPT !.run.cursor = @ + Len(page.blocks),
                                     !.run.page_index = @ + 1]
             IN  deliver(moved, page)

\* Overlay -> CacheStore: these operations are handed no composer
overlay(rd) ==
    IF is_cancelled(rd) THEN fail(rd, "Cancelled") ELSE goto(rd, "CacheStore")

\* a last step that leaves the store alone
cache_store_skipped(rd) ==
    [rd EXCEPT !.run.pc = "Done", !.run.result = "Ok",
               !.run.returned = IF rd.run.op \in Collecting THEN rd.run.out ELSE <<>>]

\* CacheStore -> Done: with a store, store_chapter_pages
cache_store(rd) ==
    IF is_cancelled(rd) THEN fail(rd, "Cancelled")
    ELSE [rd EXCEPT !.cache = IF uses_cache(rd.run.op)
                              THEN store_chapter_pages(@, rd.run.out) ELSE @,
                    !.run.pc = "Done", !.run.result = "Ok",
                    !.run.returned = IF rd.run.op \in Collecting THEN rd.run.out
                                     ELSE <<>>]

\* a next() that answers its last item again
repeated_next(rd) ==
    [rd EXCEPT !.run.items = Append(@, @[Len(@)]), !.run.polls = @ + 1]

\* next() on an iterator that has ended or failed
exhausted_next(rd) ==
    [rd EXCEPT !.run.items = Append(@, "None"), !.run.polls = @ + 1]

step(rd) ==
    CASE rd.run.pc = "Init" -> start_probe(rd)
      [] rd.run.pc = "CacheProbe" -> cache_probe(rd)
      [] rd.run.pc = "CacheHit" -> cache_hit(rd)
      [] rd.run.pc = "CacheMiss" -> cache_miss(rd)
      [] rd.run.pc = "Reflow" -> reflow(rd)
      [] rd.run.pc = "Paginate" -> paginate(rd)
      [] rd.run.pc = "Overlay" -> overlay(rd)
      [] rd.run.pc = "CacheStore" -> cache_store(rd)
      [] OTHER -> rd

\* an operation run from its start to its end, the token left alone
RECURSIVE run_to_end(_)
run_to_end(rd) == IF rd.run.pc \in Terminal \cup {"Idle"} THEN rd ELSE run_to_end(step(rd))

\* the eager prepare_chapter(book, i) of the engine and book of rd
prepare_chapter(rd, i) == run_to_end(begin(rd, "prepare_chapter", i, 0, 0, FALSE)).run

Chapters == SeqsUpTo(1..MaxBlockHeight, MaxBlocks)

Books ==
    {<<c>> : c \in Chapters}
        \cup {<<c, d>> : c \in {<<>>, <<MaxBlockHeight, MaxBlockHeight>>},
                         d \in {<<1>>, <<1, MaxBlockHeight, 1>>}}

-----------------------------------------------------------------------------
(* The reader as a state machine *)

NoOp == [op |-> "none", idx |-> 0, buf_len |-> 0, in_len |-> 0, out_len |-> 0,
         res |-> ReadResult("", 0, <<>>, 0), name |-> <<>>, found |-> 0,
         msg |-> <<>>, valid |-> FALSE, moved |-> FALSE, listed |-> <<>>,
         got |-> [some |-> FALSE, entry |-> CdEntry_new]]

Init ==
    /\ \E sc \in Scenarios : file = sc[1] /\ limits = sc[2]
    /\ zip = ZipNew
    /\ pos = 0
    /\ last = NoOp
    /\ render = RenderIdle

\* StreamingZip::new (limits = None) or StreamingZip::new_with_limits
Open ==
    /\ zip.status = "new"
    /\ LET r == new_with_limits(file, limits)
       IN  zip' = [r.zip EXCEPT !.opened_at = r.pos] /\ pos' = r.pos
    /\ UNCHANGED <<file, limits, last, render>>

ScratchLens == {0, 1, DEFAULT_ZIP_SCRATCH_BYTES}

\* the entries a read is made of: the first and the last
ReadIndexes == {1, Len(zip.entries)} \cap (1..Len(zip.entries))

BufLens(entry) ==
    {n \in {entry.uncompressed_size - 1, entry.uncompressed_size,
            entry.uncompressed_size + 1, entry.uncompressed_size + 2} : n >= 0}

OffsetBufLens(entries, offset) ==
    IF find_by_offset(entries, offset) = 0 THEN {0}
    ELSE {entries[find_by_offset(entries, offset)].uncompressed_size - 1,
          entries[find_by_offset(entries, offset)].uncompressed_size} \ {-1}

\* read_file_with_scratch; read_file is the case in_len = DEFAULT_ZIP_SCRATCH_BYTES
\* the cursor the open left behind, kept with the archive
OpenCursor == zip.opened_at

ReadFile ==
    /\ zip.status = "open"
    /\ \E idx \in ReadIndexes, in_len \in ScratchLens :
         \E buf_len \in BufLens(zip.entries[idx]) :
            LET res == read_file_with_scratch(file, limits, zip.entries[idx], buf_len,
                                              in_len, pos)
            IN  /\ last' = [NoOp EXCEPT !.op = "read_file", !.idx = idx,
                                         !.buf_len = buf_len, !.in_len = in_len,
                                         !.res = res, !.moved = (pos # OpenCursor)]
                /\ pos' = res.pos
    /\ UNCHANGED <<file, limits, zip, render>>

\* read_file_to_writer_with_scratch; read_file_to_writer is the case of two
\* scratch buffers of DEFAULT_ZIP_SCRATCH_BYTES
ReadFileToWriter ==
    /\ zip.status = "open"
    /\ \E idx \in ReadIndexes, in_len \in ScratchLens, out_len \in ScratchLens :
            LET res == read_file_to_writer_with_scratch(file, limits, zip.entries[idx],
                                                        in_len, out_len, pos)
            IN  /\ last' = [NoOp EXCEPT !.op = "read_file_to_writer", !.idx = idx,
                                         !.in_len = in_len, !.out_len = out_len,
                                         !.res = res, !.moved = (pos # OpenCursor)]
                /\ pos' = res.pos
    /\ UNCHANGED <<file, limits, zip, render>>

\* the local header offsets asked for: those of the entries read, and one
\* that no entry of the model's archives has
ReadOffsets == {zip.entries[i].local_header_offset : i \in ReadIndexes} \cup {1}

ReadFileAtOffset ==
    /\ zip.status = "open"
    /\ \E offset \in ReadOffsets :
         \E buf_len \in OffsetBufLens(zip.entries, offset) :
            LET res == read_file_at_offset(file, limits, zip.entries, offset, buf_len, pos)
            IN  /\ last' = [NoOp EXCEPT !.op = "read_file_at_offset",
                                         !.idx = find_by_offset(zip.entries, offset),
                                         !.buf_len = buf_len,
                                         !.in_len = DEFAULT_ZIP_SCRATCH_BYTES,
                                         !.res = res, !.moved = (pos # OpenCursor)]
                /\ pos' = res.pos
    /\ UNCHANGED <<file, limits, zip, render>>

\* names asked of get_entry: a, A, /a, /A, //a, b, c, @, / and the empty name
QueryNames ==
    {<<97>>, <<65>>, <<47, 97>>, <<47, 65>>, <<47, 47, 97>>, <<98>>, <<99>>, <<64>>,
     <<47>>, <<>>}

GetEntry ==
    /\ zip.status = "open"
    /\ \E name \in QueryNames :
          last' = [NoOp EXCEPT !.op = "get_entry", !.name = name,
                               !.found = get_entry(zip.entries, name)]
    /\ UNCHANGED <<file, limits, zip, pos, render>>

ValidateMimetype ==
    /\ zip.status = "open"
    /\ LET r == validate_mimetype(file, limits, zip.entries, pos)
       IN  /\ last' = [NoOp EXCEPT !.op = "validate_mimetype",
                                    !.res = ReadResult(r.kind, 0, <<>>, r.pos),
                                    !.msg = r.msg]
           /\ pos' = r.pos
    /\ UNCHANGED <<file, limits, zip, render>>

IsValidEpub ==
    /\ zip.status = "open"
    /\ last' = [NoOp EXCEPT !.op = "is_valid_epub",
                            !.valid = is_valid_epub(file, limits, zip.entries, pos)]
    /\ pos' = validate_mimetype(file, limits, zip.entries, pos).pos
    /\ UNCHANGED <<file, limits, zip, render>>

NumEntries ==
    /\ zip.status = "open"
    /\ last' = [NoOp EXCEPT !.op = "num_entries", !.found = num_entries(zip)]
    /\ UNCHANGED <<file, limits, zip, pos, render>>

Entries ==
    /\ zip.status = "open"
    /\ last' = [NoOp EXCEPT !.op = "entries", !.listed = entries_iter(zip)]
    /\ UNCHANGED <<file, limits, zip, pos, render>>

\* the indexes asked for: the first, those around the number of cached
\* entries, and those around the capacity
EntryIndexes ==
    {i \in {0, Len(zip.entries) - 1, Len(zip.entries), zip.num_entries,
            MAX_CD_ENTRIES - 1, MAX_CD_ENTRIES} : i >= 0}

GetEntryByIndex ==
    /\ zip.status = "open"
    /\ \E index \in EntryIndexes :
          last' = [NoOp EXCEPT !.op = "get_entry_by_index", !.idx = index,
                               !.got = get_entry_by_index(zip, index)]
    /\ UNCHANGED <<file, limits, zip, pos, render>>

Next ==
    \/ Open \/ ReadFile \/ ReadFileToWriter \/ ReadFileAtOffset
    \/ GetEntry \/ ValidateMimetype \/ IsValidEpub
    \/ NumEntries \/ Entries \/ GetEntryByIndex

Spec == Init /\ [][Next]_vars

-----------------------------------------------------------------------------
(* The render engine as a state machine *)

RenderInit ==
    /\ file = <<>> /\ limits = NoLimits /\ zip = ZipNew /\ pos = 0 /\ last = NoOp
    /\ \E book \in Books, k \in 1..MaxPagesLimit : render = RenderState(book, k)

CanBegin == render.run.pc \in Terminal \cup {"Idle"}

\* every chapter of the book, and one index past the last
ChapterIndexes == 0..chapter_count(render.book)

PrepareChapter ==
    /\ CanBegin
    /\ \E i \in ChapterIndexes : render' = begin(render, "prepare_chapter", i, 0, 0, FALSE)
    /\ UNCHANGED zipVars

PrepareChapterPageRange ==
    /\ CanBegin
    /\ \E i \in ChapterIndexes :
         \E start \in 0..page_count(render.book, i) :
            \E end \in start..page_count(render.book, i) :
                render' = begin(render, "prepare_chapter_page_range", i, start, end, FALSE)
    /\ UNCHANGED zipVars

PrepareChapterIter ==
    /\ CanBegin
    /\ \E i \in ChapterIndexes : render' = begin(render, "prepare_chapter_iter", i, 0, 0, FALSE)
    /\ UNCHANGED zipVars

PrepareChapterIterStreaming ==
    /\ CanBegin
    /\ \E i \in ChapterIndexes :
         render' = begin(render, "prepare_chapter_iter_streaming", i, 0, 0, FALSE)
    /\ UNCHANGED zipVars

\* the token is fresh, or cancelled already (the tests' AlreadyCancelled)
PrepareChapterWithCancel ==
    /\ CanBegin
    /\ \E i \in ChapterIndexes, already_cancelled \in BOOLEAN :
         render' = begin(render, "prepare_chapter_with_cancel", i, 0, 0, already_cancelled)
    /\ UNCHANGED zipVars

PrepareChapterWithConfigCollect ==
    /\ CanBegin
    /\ render.cache.loads < MaxLoads
    /\ \E i \in ChapterIndexes :
         render' = begin(render, "prepare_chapter_with_config_collect", i, 0, 0, FALSE)
    /\ UNCHANGED zipVars

\* the owner of the token cancels it while the operation runs
Cancel ==
    /\ render.run.op = "prepare_chapter_with_cancel"
    /\ render.run.pc \notin Terminal \cup {"Idle"}
    /\ ~render.token
    /\ render' = [render EXCEPT !.token = TRUE,
                                !.run.sunk_at_cancel = Len(render.run.out)]
    /\ UNCHANGED zipVars

StartProbe ==
    /\ render.run.pc = "Init"
    /\ render' = start_probe(render)
    /\ UNCHANGED zipVars

CacheProbe ==
    /\ render.run.pc = "CacheProbe"
    /\ render' = cache_probe(render)
    /\ UNCHANGED zipVars

CacheHit ==
    /\ render.run.pc = "CacheHit"
    /\ render' = cache_hit(render)
    /\ UNCHANGED zipVars

CacheMiss ==
    /\ render.run.pc = "CacheMiss"
    /\ render' = cache_miss(render)
    /\ UNCHANGED zipVars

Reflow ==
    /\ render.run.pc = "Reflow"
    /\ render' = reflow(render)
    /\ UNCHANGED zipVars

Paginate ==
    /\ render.run.pc = "Paginate"
    /\ render' = paginate(render)
    /\ UNCHANGED zipVars

Overlay ==
    /\ render.run.pc = "Overlay"
    /\ render' = overlay(render)
    /\ UNCHANGED zipVars

CacheStore ==
    /\ render.run.pc = "CacheStore"
    /\ render' = cache_store(render)
    /\ UNCHANGED zipVars

\* next() on an iterator that has ended or has yielded its error
IterNext ==
    /\ render.run.pc \in {"Done", "Error"}
    /\ \/ render.run.op = "prepare_chapter_iter" /\ render.run.pc = "Done"
       \/ render.run.op = "prepare_chapter_iter_streaming"
    /\ render.run.polls < MaxPolls
    /\ render' = exhausted_next(render)
    /\ UNCHANGED zipVars

RenderNext ==
    \/ PrepareChapter
    \/ PrepareChapterPageRange
    \/ PrepareChapterIter
    \/ PrepareChapterIterStreaming
    \/ PrepareChapterWithCancel
    \/ PrepareChapterWithConfigCollect
    \/ Cancel
    \/ StartProbe
    \/ CacheProbe
    \/ CacheHit
    \/ CacheMiss
    \/ Reflow
    \/ Paginate
    \/ Overlay
    \/ CacheStore
    \/ IterNext

RenderSpec == RenderInit /\ [][RenderNext]_vars

-----------------------------------------------------------------------------
(* Properties of the reader *)

Opened == zip.status = "open"
OpenFailed(kind) == zip.status = "failed" /\ zip.err = kind

\* some byte of the n bytes at offset a cannot be read from the source
Unread(a, n) == \E k \in (a + 1)..(a + n) : k <= Len(file) /\ file[k] = Unreadable

\* the last operation was read_file (the default scratch) on a stored or
\* deflated entry, into a buffer of exactly the entry's uncompressed size
ExactBufferedRead ==
    /\ Opened
    /\ last.op = "read_file"
    /\ last.in_len = DEFAULT_ZIP_SCRATCH_BYTES
    /\ last.buf_len = zip.entries[last.idx].uncompressed_size
    /\ zip.entries[last.idx].method \in {METHOD_STORED, METHOD_DEFLATED}

\* two read outcomes agree: both fail, or both succeed with the same bytes
SameOutcome(a, b) ==
    /\ (a.kind = "Ok") = (b.kind = "Ok")
    /\ a.kind = "Ok" => a.n = b.n /\ a.data = b.data

\* C1: for every stored or deflated entry, read_file into a buffer of exactly
\* uncompressed_size bytes succeeds or fails as read_file_to_writer does and,
\* on success, delivers the same bytes.
C1_BufferedMatchesStreamed ==
    ExactBufferedRead =>
        SameOutcome(last.res, read_file_to_writer(file, limits, zip.entries[last.idx], pos))

\* the window of the tail scan under cap: the last min(file_size, cap) bytes
WindowStart(cap) == Len(file) - Min(Len(file), cap)

\* the offsets of the window where an EOCD signature stands whose record,
\* with its comment, ends exactly at the end of the file
ConsistentEocds(cap) ==
    {p \in WindowStart(cap)..(Len(file) - EOCD_MIN_SIZE) :
        /\ read_u32_le(file, p) = SIG_EOCD
        /\ p + EOCD_MIN_SIZE + read_u16_le(file, p + 20) = Len(file)}

\* C8: the scan looks at the last min(file_size, max_eocd_scan) bytes only and
\* accepts an occurrence of the signature only if its record and comment end
\* the file; when there is none the open fails with InvalidFormat, and when
\* there is one it is the record the open goes by.
C8_EocdScan ==
    zip.status # "new" =>
        LET ok == ConsistentEocds(effective_max_eocd_scan(limits))
        IN  IF ok = {} THEN OpenFailed("InvalidFormat")
            ELSE zip.eocd.eocd_pos \in ok

\* C9: whatever ZipLimits the reader is opened with, the cap its tail scan
\* runs under is at least 22 and at most 22 + 65535.
C9_ScanCapClamped ==
    zip.status # "new" =>
        /\ effective_max_eocd_scan(limits) >= EOCD_MIN_SIZE
        /\ effective_max_eocd_scan(limits) <= EOCD_MIN_SIZE + u16_MAX

\* the accepted record carries a ZIP64 sentinel, read from the file's bytes
RawSentinel(p) ==
    \/ read_u16_le(file, p + 8) = u16_MAX
    \/ read_u32_le(file, p + 12) = u32_MAX
    \/ read_u32_le(file, p + 16) = u32_MAX

\* the 20 bytes before the accepted record do not start with the locator
\* signature (or there are no 20 bytes before it)
NoLocatorBefore(p) ==
    p < 20 \/ (~Unread(p - 20, 20) /\ read_u32_le(file, p - 20) # SIG_ZIP64_EOCD_LOCATOR)

\* C10: when the accepted EOCD carries a ZIP64 sentinel (entry count 0xFFFF,
\* central directory size or offset 0xFFFFFFFF) and no locator signature
\* stands in the 20 bytes before it, the open fails with InvalidFormat.
C10_SentinelNeedsLocator ==
    (/\ zip.status # "new"
     /\ zip.eocd.eocd_pos >= 0
     /\ RawSentinel(zip.eocd.eocd_pos)
     /\ NoLocatorBefore(zip.eocd.eocd_pos))
        => OpenFailed("InvalidFormat")

\* an open that met a count-only sentinel without a locator
C10_Witness ==
    /\ OpenFailed("InvalidFormat")
    /\ zip.eocd.eocd_pos >= 0
    /\ read_u16_le(file, zip.eocd.eocd_pos + 8) = u16_MAX
    /\ read_u32_le(file, zip.eocd.eocd_pos + 12) # u32_MAX
    /\ read_u32_le(file, zip.eocd.eocd_pos + 16) # u32_MAX
    /\ NoLocatorBefore(zip.eocd.eocd_pos)

\* the open accepted the EOCD record at zip.eocd.eocd_pos
EocdAccepted == zip.status # "new" /\ zip.eocd.eocd_pos >= 0

\* the locator signature stands in the 20 bytes before the accepted record
LocatorBefore(p) ==
    p >= 20 /\ ~Unread(p - 20, 20) /\ read_u32_le(file, p - 20) = SIG_ZIP64_EOCD_LOCATOR

\* the locator's fields, read from the file's bytes
LocatorDisk(p) == read_u32_le(file, p - 16)
LocatorOffset(p) == read_u64_le(file, p - 12)
LocatorTotalDisks(p) == read_u32_le(file, p - 4)

\* a ZIP64 EOCD record stands at offset q: 56 bytes, its signature, a record
\* size of at least 44
Zip64RecordAt(q) ==
    /\ q + 56 <= Len(file)
    /\ ~Unread(q, 56)
    /\ read_u32_le(file, q) = SIG_ZIP64_EOCD
    /\ read_u64_le(file, q + 4) >= 44

\* C11: when the locator before the accepted EOCD names a disk other than 0 or
\* a total other than 1, or the ZIP64 EOCD record it points at names a disk
\* number or a central-directory start disk other than 0, the open fails with
\* UnsupportedZip64.
C11_SingleDisk ==
    (/\ EocdAccepted
     /\ LocatorBefore(zip.eocd.eocd_pos)
     /\ \/ LocatorDisk(zip.eocd.eocd_pos) # 0
        \/ LocatorTotalDisks(zip.eocd.eocd_pos) # 1
        \/ /\ Zip64RecordAt(LocatorOffset(zip.eocd.eocd_pos))
           /\ \/ read_u32_le(file, LocatorOffset(zip.eocd.eocd_pos) + 16) # 0
              \/ read_u32_le(file, LocatorOffset(zip.eocd.eocd_pos) + 20) # 0)
        => OpenFailed("UnsupportedZip64")

\* an open refused for the record's start disk alone: the locator names disk 0
\* of 1 and the record names disk number 0
C11_Witness ==
    /\ OpenFailed("UnsupportedZip64")
    /\ LocatorBefore(zip.eocd.eocd_pos)
    /\ LocatorDisk(zip.eocd.eocd_pos) = 0
    /\ LocatorTotalDisks(zip.eocd.eocd_pos) = 1
    /\ Zip64RecordAt(LocatorOffset(zip.eocd.eocd_pos))
    /\ read_u32_le(file, LocatorOffset(zip.eocd.eocd_pos) + 16) = 0
    /\ read_u32_le(file, LocatorOffset(zip.eocd.eocd_pos) + 20) # 0

\* the open goes by the ZIP64 EOCD record rather than the EOCD's own fields
UsesZip64(p) == RawSentinel(p) \/ LocatorBefore(p)

\* a single-disk locator stands before the accepted record and points at a
\* single-disk ZIP64 EOCD record
SingleDiskZip64(p) ==
    /\ LocatorBefore(p)
    /\ LocatorDisk(p) = 0
    /\ LocatorTotalDisks(p) = 1
    /\ Zip64RecordAt(LocatorOffset(p))
    /\ read_u32_le(file, LocatorOffset(p) + 16) = 0
    /\ read_u32_le(file, LocatorOffset(p) + 20) = 0

\* the central-directory location and entry count the archive states, read
\* from the file's bytes: the ZIP64 record's or the EOCD's own
RawCdOffset(p) ==
    IF UsesZip64(p) THEN read_u64_le(file, LocatorOffset(p) + 48)
    ELSE u32_as_u64(read_u32_le(file, p + 16))

RawCdSize(p) ==
    IF UsesZip64(p) THEN read_u64_le(file, LocatorOffset(p) + 40)
    ELSE u32_as_u64(read_u32_le(file, p + 12))

RawNumEntries(p) ==
    IF UsesZip64(p) THEN read_u64_le(file, LocatorOffset(p) + 32)
    ELSE read_u16_le(file, p + 8)

\* offset + size > p, without forming a sum that may overflow
EndsPast(offset, size, p) == offset > p \/ size > p - offset

\* the open came to examine the location: the EOCD's own, or that of a
\* single-disk ZIP64 record
LocationExamined(p) == ~UsesZip64(p) \/ SingleDiskZip64(p)

\* C12: after a successful open cd_offset + cd_size <= eocd_pos <= file_size,
\* for the EOCD's 32-bit values and for the ZIP64 values; a location the open
\* examines that ends past the EOCD, or whose end overflows, fails the open
\* with InvalidFormat.
C12_CdLocation ==
    /\ Opened =>
          /\ LocationExamined(zip.eocd.eocd_pos)
          /\ ~EndsPast(RawCdOffset(zip.eocd.eocd_pos), RawCdSize(zip.eocd.eocd_pos),
                       zip.eocd.eocd_pos)
          /\ zip.eocd.eocd_pos <= Len(file)
          /\ zip.eocd.cd_offset = RawCdOffset(zip.eocd.eocd_pos)
          /\ zip.eocd.cd_size = RawCdSize(zip.eocd.eocd_pos)
    /\ (/\ EocdAccepted
        /\ LocationExamined(zip.eocd.eocd_pos)
        /\ EndsPast(RawCdOffset(zip.eocd.eocd_pos), RawCdSize(zip.eocd.eocd_pos),
                    zip.eocd.eocd_pos))
          => OpenFailed("InvalidFormat")

\* an open refused for a ZIP64 central directory whose end no u64 holds
C12_Witness ==
    /\ OpenFailed("InvalidFormat")
    /\ zip.eocd.eocd_pos >= 0
    /\ SingleDiskZip64(zip.eocd.eocd_pos)
    /\ RawCdOffset(zip.eocd.eocd_pos) = IntMax

\* the last operation was a read whose buffers are non-empty and whose entry
\* is within the limits and, for a buffered read, within buf
ReadMade == Opened /\ last.op \in {"read_file", "read_file_to_writer"}

LastEntry == zip.entries[last.idx]

WithinLimits(e) ==
    ~limits.some \/ (/\ e.uncompressed_size <= limits.max_file_read_size
                     /\ e.compressed_size <= limits.max_file_read_size)

ValidRead ==
    /\ ReadMade
    /\ last.in_len > 0
    /\ last.op = "read_file_to_writer" => last.out_len > 0
    /\ last.op = "read_file" => last.buf_len >= LastEntry.uncompressed_size
    /\ WithinLimits(LastEntry)

\* the file is the single-disk ZIP64 archive of one stored entry with content c
IsZip64Of(c) ==
    file = build_single_file_zip64(Declared(METHOD_STORED, c, c, 0, 0, "good"),
                                   Zip64TestShape)

\* C13: an open that succeeds has taken the central directory's offset, size
\* and entry count from the ZIP64 EOCD record when the EOCD carries a sentinel
\* or a locator stands before it, and from the EOCD's 32-bit fields
\* otherwise; the single-disk ZIP64 archive of one stored entry opens, and a
\* read of the entry delivers its exact content.
C13_Zip64Values ==
    /\ Opened =>
          /\ LocationExamined(zip.eocd.eocd_pos)
          /\ zip.eocd.cd_offset = RawCdOffset(zip.eocd.eocd_pos)
          /\ zip.eocd.cd_size = RawCdSize(zip.eocd.eocd_pos)
          /\ zip.num_entries = RawNumEntries(zip.eocd.eocd_pos)
    /\ \A c \in SeqsUpTo({1, 2}, MaxContent) :
          (IsZip64Of(c) /\ zip.status # "new"
                /\ effective_max_eocd_scan(limits) >= EOCD_MIN_SIZE) =>
             /\ Opened
             /\ Len(zip.entries) = 1
             /\ zip.entries[1].uncompressed_size = Len(c)
             /\ zip.entries[1].compressed_size = Len(c)
             /\ ValidRead => (last.res.kind = "Ok" /\ last.res.n = Len(c)
                                /\ last.res.data = c)

\* the two-byte entry of the ZIP64 archive read back into a larger buffer
C13_Witness ==
    /\ IsZip64Of(<<1, 2>>)
    /\ ValidRead
    /\ last.op = "read_file"
    /\ last.buf_len > 2
    /\ last.res.data = <<1, 2>>
    /\ zip.eocd.sentinel /\ zip.eocd.locator

Strict == limits.some /\ limits.strict

\* find_eocd returned a location, and the archive declares more entries than
\* the reader holds
OverDeclared ==
    /\ zip.status # "new"
    /\ zip.eocd.kind = "Ok"
    /\ RawNumEntries(zip.eocd.eocd_pos) > MAX_CD_ENTRIES

\* the file is an archive of many records (no other archive is as long);
\* its k-th record stands at 47 * (k - 1)
IsManyZip == Len(file) >= 47 * MAX_CD_ENTRIES

\* C14: when the archive declares more than MAX_CD_ENTRIES entries, a strict
\* open fails with CentralDirFull; a lenient open (no limits, or strict =
\* FALSE) does not: it succeeds with at most MAX_CD_ENTRIES entries, which are
\* the first records of the central directory in their order.
C14_CentralDirFull ==
    OverDeclared =>
        IF Strict THEN OpenFailed("CentralDirFull")
        ELSE /\ Opened
             /\ Len(zip.entries) <= MAX_CD_ENTRIES
             /\ IsManyZip =>
                   /\ Len(zip.entries) = MAX_CD_ENTRIES
                   /\ \A k \in 1..Len(zip.entries) :
                         /\ zip.entries[k].filename = ManyName(k)
                         /\ zip.entries[k].local_header_offset = k - 1

\* a lenient open of an archive of MAX_CD_ENTRIES + 1 records
C14_Witness ==
    /\ OverDeclared
    /\ ~Strict
    /\ IsManyZip
    /\ Opened
    /\ Len(zip.entries) = MAX_CD_ENTRIES
    /\ zip.num_entries = MAX_CD_ENTRIES + 1

\* a strict open of an archive of one record that declares MAX_CD_ENTRIES + 1
StrictOverDeclared ==
    /\ OverDeclared
    /\ Strict
    /\ ~IsManyZip
    /\ OpenFailed("CentralDirFull")

\* the scratch buffers of the last read are non-empty
ScratchGiven ==
    /\ last.in_len > 0
    /\ last.op = "read_file_to_writer" => last.out_len > 0

\* e exceeds max_file_read_size of the limits l
Exceeds(e, l) ==
    l.some /\ (\/ e.uncompressed_size > l.max_file_read_size
               \/ e.compressed_size > l.max_file_read_size)

\* where the local header of e says its data starts
RawDataOffset(e) ==
    e.local_header_offset + 30 + read_u16_le(file, e.local_header_offset + 26)
        + read_u16_le(file, e.local_header_offset + 28)

\* the local header of e and its compressed_size bytes of data lie in the file
EntryIntact(e) ==
    /\ e.local_header_offset + 30 <= Len(file)
    /\ ~Unread(e.local_header_offset, 30)
    /\ ~Unread(RawDataOffset(e), e.compressed_size)
    /\ read_u32_le(file, e.local_header_offset) = SIG_LOCAL_FILE_HEADER
    /\ RawDataOffset(e) + e.compressed_size <= Len(file)

RawData(e) == Slice(file, RawDataOffset(e), e.compressed_size)

\* a deflate stream that is its symbols and their END, nothing after or amiss
StreamComplete(st) ==
    /\ st # <<>>
    /\ st[Len(st)] = 0
    /\ \A k \in 1..(Len(st) - 1) :
          /\ st[k] \notin {0, 255}
          /\ st[k] = 253 => \E j \in 1..(k - 1) : st[j] \notin {253, 254}

\* what the entry's data holds: the stored bytes, or what the stream decodes to
EntryContent(e) ==
    IF e.method = METHOD_STORED THEN RawData(e) ELSE Decoded(RawData(e), <<>>)

\* a stored or deflated entry whose data is whole and whose recorded sizes
\* are those of its data and its content
WellFormedEntry(e) ==
    /\ e.method \in {METHOD_STORED, METHOD_DEFLATED}
    /\ EntryIntact(e)
    /\ e.method = METHOD_DEFLATED => StreamComplete(RawData(e))
    /\ Len(EntryContent(e)) = e.uncompressed_size

\* the recorded crc32 is absent or that of the content
CrcGood(e) == e.crc32 = 0 \/ e.crc32 = crc32_hash(EntryContent(e))

\* C15: with limits set, a buffered or streamed read (non-empty scratch) of an
\* entry whose uncompressed_size or compressed_size exceeds max_file_read_size
\* fails with FileTooLarge; without limits no read fails with FileTooLarge,
\* and an entry that exceeds the limits in use elsewhere is read in full
\* (into a buffer larger than its content, as test_zip_limits_not_enforced_by_
\* default reads it).
C15_FileTooLarge ==
    (ReadMade /\ ScratchGiven) =>
        /\ Exceeds(LastEntry, limits) => last.res.kind = "FileTooLarge"
        /\ last.res.kind = "FileTooLarge" => Exceeds(LastEntry, limits)
        /\ (/\ ~limits.some
            /\ \E l \in ReadLimits : Exceeds(LastEntry, l)
            /\ WellFormedEntry(LastEntry) /\ CrcGood(LastEntry)
            /\ last.op = "read_file" => last.buf_len > LastEntry.uncompressed_size)
              => /\ last.res.kind = "Ok"
                 /\ last.res.data = EntryContent(LastEntry)

\* a deflated entry refused for its compressed size alone
C15_Witness ==
    /\ ReadMade /\ ScratchGiven
    /\ limits.some
    /\ LastEntry.method = METHOD_DEFLATED
    /\ LastEntry.uncompressed_size <= limits.max_file_read_size
    /\ LastEntry.compressed_size > limits.max_file_read_size
    /\ last.res.kind = "FileTooLarge"

\* an entry over the limits in use elsewhere, read in full without limits
ReadWithoutLimits ==
    /\ ReadMade /\ ScratchGiven
    /\ ~limits.some
    /\ \E l \in ReadLimits : Exceeds(LastEntry, l)
    /\ last.res.kind = "Ok"
    /\ Len(last.res.data) = 2

\* the last read is of a well-formed entry within the limits
SoundRead == ReadMade /\ WellFormedEntry(LastEntry) /\ WithinLimits(LastEntry)

\* what C16 says of a buffered read
BufferedTooSmall ==
    /\ last.res.kind = "BufferTooSmall"
          <=> (last.in_len = 0 \/ Len(EntryContent(LastEntry)) > last.buf_len)
    /\ (/\ last.in_len > 0
        /\ CrcGood(LastEntry)
        /\ Len(EntryContent(LastEntry)) = last.buf_len)
          => (last.res.kind = "Ok" /\ last.res.data = EntryContent(LastEntry))

\* what C16 says of a streamed read
StreamedTooSmall ==
    last.res.kind = "BufferTooSmall" <=> (last.in_len = 0 \/ last.out_len = 0)

\* C16: read_file_with_scratch returns BufferTooSmall exactly when input_buf
\* is empty or the entry's decompressed content does not fit in buf, and
\* read_file_to_writer_with_scratch exactly when input_buf or output_buf is
\* empty; an entry whose content has exactly buf.len() bytes, zero bytes
\* included, is read successfully.
C16_BufferTooSmall ==
    SoundRead =>
        /\ last.op = "read_file" => BufferedTooSmall
        /\ last.op = "read_file_to_writer" => StreamedTooSmall

\* a deflated entry read into a buffer of exactly its content's size, when
\* the content is empty or the scratch input does not hold the whole stream:
\* the buffer is full while compressed input is still to come
FullBeforeEnd ==
    /\ LastEntry.method = METHOD_DEFLATED
    /\ last.op = "read_file"
    /\ last.in_len > 0
    /\ last.buf_len = Len(EntryContent(LastEntry))
    /\ \/ EntryContent(LastEntry) = <<>>
       \/ last.in_len < LastEntry.compressed_size

\* the statement of C16 for every other read
BufferTooSmallElsewhere ==
    (SoundRead /\ ~FullBeforeEnd) => C16_BufferTooSmall

\* a one-byte deflated entry refused by a buffer of one byte
C16_FullBeforeEnd ==
    /\ SoundRead
    /\ FullBeforeEnd
    /\ CrcGood(LastEntry)
    /\ Len(EntryContent(LastEntry)) = 1
    /\ last.res.kind = "BufferTooSmall"

\* the local header of e is where the central directory says
HeaderIntact(e) ==
    /\ e.local_header_offset + 30 <= Len(file)
    /\ ~Unread(e.local_header_offset, 30)
    /\ read_u32_le(file, e.local_header_offset) = SIG_LOCAL_FILE_HEADER

Supported(e) == e.method \in {METHOD_STORED, METHOD_DEFLATED}

\* C17: a buffered or streamed read of an entry whose method is neither
\* Stored (0) nor Deflated (8) never succeeds; it fails with
\* UnsupportedCompression once the call has got to the entry's data (scratch
\* given, within limits and buf, local header in place), and no read of a
\* stored or deflated entry fails so.
C17_UnsupportedCompression ==
    ReadMade =>
        /\ ~Supported(LastEntry) =>
              /\ last.res.kind # "Ok"
              /\ (ValidRead /\ HeaderIntact(LastEntry))
                    => last.res.kind = "UnsupportedCompression"
        /\ last.res.kind = "UnsupportedCompression" => ~Supported(LastEntry)

\* a streamed read refused for the entry's method
C17_Witness ==
    /\ ReadMade
    /\ last.op = "read_file_to_writer"
    /\ LastEntry.method = 12
    /\ last.res.kind = "UnsupportedCompression"

\* a buffered read refused for the entry's method
BufferedUnsupported ==
    /\ ReadMade
    /\ last.op = "read_file"
    /\ ~Supported(LastEntry)
    /\ last.res.kind = "UnsupportedCompression"

\* the scan of C8, for the caps that hold a whole EOCD record
EocdScanInRange ==
    (/\ effective_max_eocd_scan(limits) >= EOCD_MIN_SIZE
     /\ ~Unread(0, Len(file))) => C8_EocdScan

-----------------------------------------------------------------------------
(* Properties of the render engine *)

Run == render.run

\* what the eager prepare_chapter of the same engine and book gives for the
\* chapter of the running operation
Eager == prepare_chapter(render, Run.chapter)

\* C2: a prepare_chapter_with_config_collect call with a store attached makes
\* exactly one load_chapter_pages call; on a miss it lays the chapter out and
\* makes exactly one store_chapter_pages call, of the pages it returns; on a
\* hit it makes no store call and returns the cached pages unchanged.
C2_CacheLoadStore ==
    uses_cache(Run.op) =>
        /\ render.cache.loads <= Run.loads0 + 1
        /\ render.cache.stores <= Run.stores0 + 1
        /\ Run.pc \in Terminal => render.cache.loads = Run.loads0 + 1
        /\ (Run.pc = "Done" /\ ~Run.cached0.some) =>
              /\ render.cache.stores = Run.stores0 + 1
              /\ render.cache.cached_pages = Some(Run.returned)
              /\ Run.returned = layout(render.book[Run.chapter + 1], 0, 0)
        /\ (Run.pc = "Done" /\ Run.cached0.some) =>
              /\ render.cache.stores = Run.stores0
              /\ render.cache.cached_pages = Run.cached0
              /\ Run.returned = Run.cached0.pages

\* a second call on the same store has hit what the first call stored
C2_Witness ==
    /\ uses_cache(Run.op)
    /\ Run.pc = "Done"
    /\ Run.cached0.some
    /\ Run.returned # <<>>
    /\ render.cache.loads = 2
    /\ render.cache.stores = 1

C4_PageRangeIsSlice ==
    (/\ Run.op = "prepare_chapter_page_range"
     /\ Run.pc \in Terminal
     /\ Eager.result = "Ok") =>
        /\ Run.result = "Ok"
        /\ Run.returned = SubSeq(Eager.returned, Run.start + 1, Run.end)

\* a range of two pages that leaves the first page out
C4_Witness ==
    /\ Run.op = "prepare_chapter_page_range"
    /\ Run.pc = "Done"
    /\ Run.start = 1
    /\ Len(Run.returned) = 2

\* C5: in prepare_chapter_with_cancel the sink is not invoked once the token
\* is cancelled and the operation ends in Err(Cancelled); a token cancelled
\* before the first page leaves the sink uninvoked.
C5_CancelStopsSink ==
    (Run.op = "prepare_chapter_with_cancel" /\ Run.sunk_at_cancel >= 0) =>
        /\ Len(Run.out) = Run.sunk_at_cancel
        /\ Run.pc \in Terminal => Run.pc = "Cancelled" /\ Run.result = "Cancelled"

\* a cancellation seen between the first page and the second
C5_Witness ==
    /\ Run.op = "prepare_chapter_with_cancel"
    /\ Run.pc = "Cancelled"
    /\ Len(Run.out) = 1
    /\ page_count(render.book, Run.chapter) >= 2

\* C6: the items of a prepare_chapter_iter_streaming iterator hold nothing
\* but None after an Err, and a failed iterator has yielded exactly one Err.
C6_ErrThenExhausted ==
    Run.op = "prepare_chapter_iter_streaming" =>
        /\ \A j \in 1..Len(Run.items) :
              Run.items[j] = "Err" =>
                  \A m \in (j + 1)..Len(Run.items) : Run.items[m] = "None"
        /\ Run.pc = "Error" =>
              Cardinality({j \in 1..Len(Run.items) : Run.items[j] = "Err"}) = 1

\* next() called again after the Err of an out-of-range chapter
C6_Witness ==
    /\ Run.op = "prepare_chapter_iter_streaming"
    /\ Run.chapter >= chapter_count(render.book)
    /\ Len(Run.items) >= 2
    /\ Run.items[1] = "Err"

\* C7: when the chapter lays out to more pages than max_pages_in_memory, the
\* eager prepare_chapter ends in Err(LimitExceeded) and returns no page.
C7_LimitExceeded ==
    (/\ Run.op = "prepare_chapter"
     /\ Run.pc \in Terminal
     /\ page_count(render.book, Run.chapter) > render.max_pages_in_memory) =>
        /\ Run.result = "LimitExceeded"
        /\ Run.returned = <<>>

\* a chapter cut off after pages had been collected
C7_Witness ==
    /\ Run.op = "prepare_chapter"
    /\ Run.result = "LimitExceeded"
    /\ Len(Run.out) >= 1

(* Failed reads                                                              *)

\* a read of n bytes at offset a fails: it runs past the end of the source
\* or meets a byte the source cannot deliver
ReadFails(a, n) == a + n > Len(file) \/ Unread(a, n)

\* the scan window open() reads from the tail of the source
TailWindow == Min(Len(file), effective_max_eocd_scan(limits))

\* the end record was found and located a directory that open() walks
CdWalked ==
    /\ zip.status # "new"
    /\ zip.eocd.kind = "Ok"
    /\ ~(Strict /\ zip.eocd.num_entries > MAX_CD_ENTRIES)
    /\ zip.eocd.num_entries >= 1
    /\ zip.eocd.cd_size > 0

FirstRecord == zip.eocd.cd_offset
FirstIsRecord == ~ReadFails(FirstRecord, 4) /\ read_u32_le(file, FirstRecord) = SIG_CD_ENTRY
FirstNameLen == read_u16_le(file, FirstRecord + 28)
FirstExtraLen == read_u16_le(file, FirstRecord + 30)
FirstExtra == FirstRecord + 46 + FirstNameLen
FirstNamed ==
    /\ FirstIsRecord
    /\ ~ReadFails(FirstRecord + 4, 42)
    /\ FirstNameLen >= 1
    /\ FirstNameLen <= MAX_FILENAME_LEN
FirstHasExtra == FirstNamed /\ ~ReadFails(FirstRecord + 46, FirstNameLen) /\ FirstExtraLen >= 4
FirstNeedsZip64 ==
    /\ FirstHasExtra
    /\ ~ReadFails(FirstExtra, 4)
    /\ read_u16_le(file, FirstExtra) = 1
    /\ read_u16_le(file, FirstExtra + 2) >= 24
    /\ read_u16_le(file, FirstExtra + 2) <= FirstExtraLen - 4
    /\ read_u32_le(file, FirstRecord + 20) = u32_MAX
    /\ read_u32_le(file, FirstRecord + 24) = u32_MAX
    /\ read_u32_le(file, FirstRecord + 42) = u32_MAX

\* open() fails with IoError when reading the tail window, the 20 bytes
\* before the end record, or the ZIP64 record a single-disk locator names
FailedFindIsIoError ==
    zip.status # "new" =>
        /\ (Len(file) >= EOCD_MIN_SIZE /\ Unread(Len(file) - TailWindow, TailWindow))
              => OpenFailed("IoError")
        /\ (EocdAccepted /\ zip.eocd.eocd_pos >= 20
               /\ Unread(zip.eocd.eocd_pos - 20, 20))
              => OpenFailed("IoError")
        /\ (EocdAccepted /\ LocatorBefore(zip.eocd.eocd_pos)
               /\ LocatorDisk(zip.eocd.eocd_pos) = 0
               /\ LocatorTotalDisks(zip.eocd.eocd_pos) = 1
               /\ ReadFails(LocatorOffset(zip.eocd.eocd_pos), 56))
              => OpenFailed("IoError")

\* open() fails with IoError when a read of the first directory record's
\* fixed part, name, extra-field header or ZIP64 values fails
FailedRecordIsIoError ==
    CdWalked =>
        /\ (FirstIsRecord /\ ReadFails(FirstRecord + 4, 42)) => OpenFailed("IoError")
        /\ (FirstNamed /\ ReadFails(FirstRecord + 46, FirstNameLen))
              => OpenFailed("IoError")
        /\ (FirstHasExtra /\ ReadFails(FirstExtra, 4)) => OpenFailed("IoError")
        /\ (FirstNeedsZip64 /\ ReadFails(FirstExtra + 4, 24)) => OpenFailed("IoError")

\* a read of an entry fails with IoError when reading its local header, its
\* stored data or the first refill of its DEFLATE input fails
FailedEntryReadIsIoError ==
    (/\ ReadMade
     /\ ScratchGiven
     /\ WithinLimits(LastEntry)
     /\ last.op = "read_file" => LastEntry.uncompressed_size <= last.buf_len) =>
        /\ ReadFails(LastEntry.local_header_offset, 30) => last.res.kind = "IoError"
        /\ (/\ HeaderIntact(LastEntry)
            /\ LastEntry.method = METHOD_STORED
            /\ last.op = "read_file" => LastEntry.compressed_size <= last.buf_len
            /\ LastEntry.compressed_size > 0
            /\ ReadFails(RawDataOffset(LastEntry),
                         IF last.op = "read_file" THEN LastEntry.compressed_size
                         ELSE Min(LastEntry.compressed_size, last.out_len)))
              => last.res.kind = "IoError"
        /\ (/\ HeaderIntact(LastEntry)
            /\ LastEntry.method = METHOD_DEFLATED
            /\ LastEntry.compressed_size > 0
            /\ ReadFails(RawDataOffset(LastEntry),
                         Min(LastEntry.compressed_size, last.in_len)))
              => last.res.kind = "IoError"

\* the read of the first directory record's signature fails
FirstSignatureFails == CdWalked /\ ReadFails(FirstRecord, 4)

\* C18: every failed read of the source, during open (end record, ZIP64
\* records, central-directory records) or during an entry read (local header,
\* data), is reported as IoError: never as another error kind, never as
\* success.
C18_FailedReadIsIoError ==
    /\ FailedFindIsIoError
    /\ FirstSignatureFails => OpenFailed("IoError")
    /\ FailedRecordIsIoError
    /\ FailedEntryReadIsIoError

\* every failed read other than that of a directory record's signature is
\* reported as IoError
IoErrorElsewhere ==
    /\ FailedFindIsIoError
    /\ FailedRecordIsIoError
    /\ FailedEntryReadIsIoError

\* a lenient open succeeds with no entries though the read of the first
\* directory record's signature failed
SilentOpen == FirstSignatureFails /\ ~Strict /\ Opened /\ Len(zip.entries) = 0

\* a strict open reports InvalidFormat for the same failed read
MisreportedOpen == FirstSignatureFails /\ Strict /\ OpenFailed("InvalidFormat")

\* failed reads that are reported as IoError: a directory record's fixed
\* part during open, and a local header during an entry read
ReportedOpen == CdWalked /\ FirstIsRecord /\ ReadFails(FirstRecord + 4, 42)
ReportedRead == ReadMade /\ ScratchGiven /\ Unread(LastEntry.local_header_offset, 30)


(* CRC verification                                                          *)

\* the recorded crc32 is nonzero and differs from the CRC32 of the bytes the
\* read produced
CrcDiffers == LastEntry.crc32 # 0 /\ LastEntry.crc32 # crc32_hash(last.res.data)

\* C19: a buffered or streamed read of a STORED or DEFLATE entry returns Ok
\* only if the recorded crc32 is zero or equals the CRC32 of all bytes
\* produced; a read that runs to its end with a nonzero, differing crc32 fails
\* with CrcMismatch, and CrcMismatch is returned for no other reason.
C19_CrcVerified ==
    (ReadMade /\ Supported(LastEntry)) =>
        /\ last.res.kind = "Ok" => ~CrcDiffers
        /\ last.res.kind = "CrcMismatch" => CrcDiffers
        /\ (ValidRead /\ WellFormedEntry(LastEntry) /\ ~CrcGood(LastEntry)
               /\ ~FullBeforeEnd)
              => (/\ last.res.kind = "CrcMismatch"
                  /\ last.res.data = EntryContent(LastEntry))
        /\ (ValidRead /\ WellFormedEntry(LastEntry) /\ CrcGood(LastEntry)
               /\ ~FullBeforeEnd)
              => last.res.kind = "Ok"

\* a DEFLATE entry of two or more bytes, streamed through a scratch buffer
\* shorter than its data, fails with CrcMismatch after all bytes are written
C19_Witness ==
    /\ ReadMade
    /\ last.op = "read_file_to_writer"
    /\ LastEntry.method = METHOD_DEFLATED
    /\ last.in_len < LastEntry.compressed_size
    /\ Len(last.res.data) >= 2
    /\ last.res.kind = "CrcMismatch"
    /\ last.res.data = EntryContent(LastEntry)

\* reads that verify a nonzero crc32 and succeed, buffered and streamed
VerifiedBuffered ==
    /\ ReadMade /\ last.op = "read_file" /\ last.res.kind = "Ok"
    /\ LastEntry.crc32 # 0 /\ Len(last.res.data) >= 2
VerifiedStreamed ==
    /\ ReadMade /\ last.op = "read_file_to_writer" /\ last.res.kind = "Ok"
    /\ LastEntry.crc32 # 0 /\ Len(last.res.data) >= 2 /\ last.in_len < LastEntry.compressed_size

\* a buffered read of a STORED entry fails with CrcMismatch
MismatchBuffered ==
    /\ ReadMade /\ last.op = "read_file" /\ last.res.kind = "CrcMismatch"
    /\ LastEntry.method = METHOD_STORED


(* Entry lookup                                                              *)

Looked == Opened /\ last.op = "get_entry"

\* a name with its ASCII capital letters replaced by small ones
Fold(s) == [k \in 1..Len(s) |-> IF s[k] \in 65..90 THEN s[k] + 32 ELSE s[k]]

\* s begins with '/'; s without its first character
Slashed(s) == Len(s) >= 1 /\ s[1] = 47
Rest(s) == SubSeq(s, 2, Len(s))

\* the file name equals the name verbatim, or case-insensitively, or
\* case-insensitively after one leading '/' is removed from either
NameMatches(filename, name) ==
    \/ filename = name
    \/ Fold(filename) = Fold(name)
    \/ (Slashed(name) /\ Fold(filename) = Fold(Rest(name)))
    \/ (Slashed(filename) /\ Fold(Rest(filename)) = Fold(name))

\* the positions, in central-directory order, of the entries that match
Matching == {k \in 1..Len(zip.entries) : NameMatches(zip.entries[k].filename, last.name)}

\* C20: get_entry(name) returns Some(e) only if e.filename matches name
\* verbatim, or ASCII-case-insensitively, or case-insensitively after one
\* leading '/' is removed from name or from e.filename; it returns None
\* exactly when no cached entry matches; of several matching entries it
\* returns the first in central-directory order.
C20_GetEntry ==
    Looked =>
        /\ last.found \in 0..Len(zip.entries)
        /\ last.found # 0 => last.found \in Matching
        /\ last.found = 0 <=> Matching = {}
        /\ \A k \in Matching : last.found <= k

\* the second of three entries is returned: the first does not match, the
\* third matches too, and the match needs a '/' removed and case ignored
C20_Witness ==
    /\ Looked
    /\ Len(zip.entries) = 3
    /\ last.found = 2
    /\ 3 \in Matching
    /\ zip.entries[2].filename # last.name
    /\ Fold(zip.entries[2].filename) # Fold(last.name)

\* lookups that find nothing among entries that are there: an unknown name,
\* a name two '/' away, and a name whose character differs from the file
\* name's by the distance of a capital from its small letter
LookupNone == Looked /\ Len(zip.entries) >= 1 /\ last.found = 0
LookupTwoSlashes ==
    /\ Looked /\ last.found = 0 /\ last.name = <<47, 47, 97>>
    /\ \E k \in 1..Len(zip.entries) : zip.entries[k].filename = <<97>>
LookupNotLetter ==
    /\ Looked /\ last.found = 0 /\ last.name = <<64>>
    /\ \E k \in 1..Len(zip.entries) : zip.entries[k].filename = <<96>>

\* lookups that match through each rule
LookupVerbatim == Looked /\ last.found # 0 /\ zip.entries[last.found].filename = last.name
LookupNameSlash ==
    /\ Looked /\ last.found # 0 /\ Slashed(last.name)
    /\ ~Slashed(zip.entries[last.found].filename)
LookupFileSlash ==
    /\ Looked /\ last.found # 0 /\ ~Slashed(last.name)
    /\ Slashed(zip.entries[last.found].filename)


(* The mimetype check                                                        *)

Validated == Opened /\ last.op = "validate_mimetype"

\* the entries that match the name mimetype, and the first of them
MimeMatching ==
    {k \in 1..Len(zip.entries) : NameMatches(zip.entries[k].filename, MIMETYPE_NAME)}
MimeEntry == zip.entries[CHOOSE k \in MimeMatching : \A j \in MimeMatching : k <= j]

\* the bytes c stand somewhere in the message
Contains(msg, c) ==
    \E i \in 0..(Len(msg) - Len(c)) : SubSeq(msg, i + 1, i + Len(c)) = c

\* the bytes are text: ASCII, for the contents drawn
IsText(c) == \A k \in 1..Len(c) : c[k] \in 0..127

MimeOversized == limits.some /\ MimeEntry.uncompressed_size > limits.max_mimetype_size

\* the mimetype entry can be read in full into a buffer of its declared size
MimeReadable ==
    /\ WellFormedEntry(MimeEntry)
    /\ WithinLimits(MimeEntry)
    /\ ~(MimeEntry.method = METHOD_DEFLATED /\ MimeEntry.uncompressed_size = 0)

\* is_valid_epub() is true exactly when validate_mimetype() is Ok
ValidIffOk ==
    (Opened /\ last.op = "is_valid_epub")
        => (last.valid <=> validate_mimetype(file, limits, zip.entries, pos).kind = "Ok")

\* Ok only for an entry whose content is exactly application/epub+zip
OkOnlyIfExact ==
    (Validated /\ last.res.kind = "Ok")
        => (MimeMatching # {} /\ EntryContent(MimeEntry) = EPUB_MIMETYPE)

\* C21 as stated: is_valid_epub() is true exactly when validate_mimetype() is
\* Ok; Ok only if the entry found for mimetype decompresses to exactly
\* application/epub+zip; if there is no such entry, or its content differs,
\* the result is InvalidMimetype, with the content in the message when the
\* content differs.
C21_Mimetype ==
    /\ ValidIffOk
    /\ OkOnlyIfExact
    /\ (Validated /\ MimeMatching = {}) => last.res.kind = "InvalidMimetype"
    /\ (Validated /\ MimeMatching # {} /\ EntryIntact(MimeEntry)
           /\ EntryContent(MimeEntry) # EPUB_MIMETYPE)
          => (/\ last.res.kind = "InvalidMimetype"
              /\ Contains(last.msg, EntryContent(MimeEntry)))

\* C21, amended: is_valid_epub() is true exactly when validate_mimetype() is
\* Ok; Ok only if the entry found for mimetype decompresses to exactly
\* application/epub+zip; with no such entry the result is InvalidMimetype
\* (not found); an entry declared larger than max_mimetype_size gives
\* InvalidMimetype (too large); otherwise an entry that cannot be read gives
\* the read's own error (FileTooLarge, CrcMismatch, ...), content that is not
\* UTF-8 gives InvalidMimetype (not valid UTF-8), and text that differs gives
\* InvalidMimetype with the text in the message.
C21_MimetypeAmended ==
    /\ ValidIffOk
    /\ OkOnlyIfExact
    /\ (Validated /\ MimeMatching = {})
          => (last.res.kind = "InvalidMimetype" /\ last.msg = MSG_NOT_FOUND)
    /\ (Validated /\ MimeMatching # {}) =>
          /\ MimeOversized
                => (last.res.kind = "InvalidMimetype" /\ last.msg = MSG_TOO_LARGE)
          /\ (~MimeOversized /\ ~WithinLimits(MimeEntry))
                => last.res.kind = "FileTooLarge"
          /\ (~MimeOversized /\ MimeReadable /\ ~CrcGood(MimeEntry))
                => last.res.kind = "CrcMismatch"
          /\ (~MimeOversized /\ MimeReadable /\ CrcGood(MimeEntry)) =>
                /\ EntryContent(MimeEntry) = EPUB_MIMETYPE => last.res.kind = "Ok"
                /\ ~IsText(EntryContent(MimeEntry))
                      => (last.res.kind = "InvalidMimetype" /\ last.msg = MSG_NOT_UTF8)
                /\ (IsText(EntryContent(MimeEntry))
                       /\ EntryContent(MimeEntry) # EPUB_MIMETYPE)
                      => (/\ last.res.kind = "InvalidMimetype"
                          /\ Contains(last.msg, EntryContent(MimeEntry)))

\* the entry mimetype holds text/plain: InvalidMimetype, with text/plain in
\* the message
C21_Witness ==
    /\ Validated
    /\ MimeMatching # {}
    /\ EntryContent(MimeEntry) = TEXT_PLAIN
    /\ last.res.kind = "InvalidMimetype"
    /\ Contains(last.msg, TEXT_PLAIN)

\* other outcomes of the check
MimeAccepted == Validated /\ last.res.kind = "Ok" /\ MimeEntry.method = METHOD_DEFLATED
MimeMissing == Validated /\ MimeMatching = {} /\ last.msg = MSG_NOT_FOUND
MimeTooLarge ==
    /\ Validated /\ MimeMatching # {} /\ EntryContent(MimeEntry) = TEXT_PLAIN
    /\ last.msg = MSG_TOO_LARGE
MimeCrcMismatch ==
    /\ Validated /\ MimeMatching # {} /\ EntryContent(MimeEntry) = TEXT_PLAIN
    /\ last.res.kind = "CrcMismatch"
MimeNotText == Validated /\ MimeMatching # {} /\ last.msg = MSG_NOT_UTF8
EpubValid == Opened /\ last.op = "is_valid_epub" /\ last.valid
EpubNotValid == Opened /\ last.op = "is_valid_epub" /\ ~last.valid


(* The per-chapter state machine                                             *)

\* the states a chapter render moves to from the state pc: one stage forward,
\* or Cancelled or Error from any state but Done
StageAfter(pc) ==
    CASE pc = "Init" -> {"CacheProbe"}
      [] pc = "CacheProbe" -> {"CacheHit", "CacheMiss"}
      [] pc = "CacheHit" -> {"Done"}
      [] pc = "CacheMiss" -> {"Reflow"}
      [] pc = "Reflow" -> {"Paginate"}
      [] pc = "Paginate" -> {"Overlay"}
      [] pc = "Overlay" -> {"CacheStore"}
      [] pc = "CacheStore" -> {"Done"}
      [] OTHER -> {}

Unfinished ==
    {"Init", "CacheProbe", "CacheHit", "CacheMiss", "Reflow", "Paginate", "Overlay",
     "CacheStore"}

\* a step of the render under way; a step to Init is the start of another
SameRender == render'.run.pc # "Init"

StageStep ==
    (SameRender /\ render'.run.pc # render.run.pc) =>
        \/ render'.run.pc \in StageAfter(render.run.pc)
        \/ render'.run.pc \in {"Cancelled", "Error"} /\ render.run.pc \in Unfinished

\* once Done, Cancelled or Error, a render keeps its state and its result
TerminalStays ==
    (SameRender /\ render.run.pc \in {"Done", "Cancelled", "Error"}) =>
        /\ render'.run.pc = render.run.pc
        /\ render'.run.result = render.run.result
        /\ render'.run.returned = render.run.returned

\* a render that hit the cache is Done with the store not written and no
\* page laid out; one that is Done after a miss has gone through CacheStore
HitLeavesStore ==
    (render.run.pc = "Done" /\ render.run.hit) =>
        /\ render.cache.stores = render.run.stores0
        /\ render.run.cursor = 0
        /\ render.run.page_index = 0

MissStoresOnce ==
    (render.run.pc = "Done" /\ ~render.run.hit /\ uses_cache(render.run.op))
        => render.cache.stores = render.run.stores0 + 1

StoreOnlyAtEnd ==
    render.run.pc \in Unfinished => render.cache.stores = render.run.stores0

\* C22: a chapter render follows Init -> CacheProbe -> (CacheHit -> Done) |
\* (CacheMiss -> Reflow -> Paginate -> Overlay -> CacheStore -> Done):
\* CacheStore is reached only after a miss and after Reflow, Paginate and
\* Overlay in that order; a hit reaches Done without Reflow or CacheStore;
\* Cancelled and Error are entered only from a state other than Done;
\* nothing leaves Done.
C22_StateMachine ==
    /\ [][StageStep /\ TerminalStays]_vars
    /\ [](HitLeavesStore /\ MissStoresOnce /\ StoreOnlyAtEnd)

\* a render with a store that missed, laid out two pages or more, stored
\* them and is Done
C22_Witness ==
    /\ render.run.pc = "Done"
    /\ uses_cache(render.run.op)
    /\ ~render.run.hit
    /\ Len(render.run.out) >= 2
    /\ render.cache.stores = render.run.stores0 + 1

\* a render that hit the cache and is Done; renders cancelled while paginating
\* and failed while paginating
RenderHit == render.run.pc = "Done" /\ render.run.hit /\ Len(render.run.returned) >= 1
RenderCancelledLate ==
    render.run.pc = "Cancelled" /\ render.run.sunk_at_cancel >= 1
RenderFailedLate ==
    render.run.pc = "Error" /\ render.run.result = "LimitExceeded"


(* ZIP64 values of a directory record                                        *)

SizeFields == <<"uncompressed_size", "compressed_size", "local_header_offset">>

\* where the 32-bit value of the k-th of these fields stands in a record
Field32At(k) == FirstRecord + (CASE k = 1 -> 24 [] k = 2 -> 20 [] OTHER -> 42)

HasSentinel(k) == read_u32_le(file, Field32At(k)) = u32_MAX

\* the first extra field with header id 0x0001 at or after offset q, when
\* left bytes of the extra area remain; -1 when there is none
RECURSIVE Zip64FieldFrom(_, _)
Zip64FieldFrom(q, left) ==
    IF left < 4 \/ read_u16_le(file, q + 2) > left - 4 THEN -1
    ELSE IF read_u16_le(file, q) = 1 THEN q
    ELSE Zip64FieldFrom(q + 4 + read_u16_le(file, q + 2), left - 4 - read_u16_le(file, q + 2))

Zip64Field == Zip64FieldFrom(FirstExtra, FirstExtraLen)

\* how many fields before the k-th hold the sentinel
SentinelsBefore(k) == Cardinality({j \in 1..(k - 1) : HasSentinel(j)})

\* the k-th field has its 64-bit value in the 0x0001 field
HasValue(k) ==
    /\ Zip64Field >= 0
    /\ read_u16_le(file, Zip64Field + 2) >= 8 * (SentinelsBefore(k) + 1)

ValueOf(k) ==
    IF HasSentinel(k) THEN read_u64_le(file, Zip64Field + 4 + 8 * SentinelsBefore(k))
    ELSE u32_as_u64(read_u32_le(file, Field32At(k)))

\* the first directory record was read whole: with a name, and with an
\* extra area whose fields are of the sizes they declare
FirstRecordRead ==
    /\ CdWalked
    /\ FirstNamed
    /\ ~ReadFails(FirstRecord + 46, FirstNameLen + FirstExtraLen)
    /\ FirstExtraLen < 4 \/ read_u16_le(file, FirstExtra + 2) <= FirstExtraLen - 4

Upgraded == \E k \in 1..3 : HasSentinel(k)
Unvalued == \E k \in 1..3 : HasSentinel(k) /\ ~HasValue(k)

\* C23: in a central-directory record, each of uncompressed size, compressed
\* size and local-header offset whose 32-bit field is 0xFFFFFFFF is replaced
\* by the next 8-byte value of the 0x0001 extra field, in that order; a field
\* without the sentinel keeps its 32-bit value; if a sentinel field gets no
\* 64-bit value, open fails with InvalidFormat.
C23_Zip64Upgrade ==
    FirstRecordRead =>
        /\ Unvalued => OpenFailed("InvalidFormat")
        /\ (~Unvalued /\ zip.eocd.num_entries = 1) =>
              /\ Opened
              /\ Len(zip.entries) = 1
              /\ \A k \in 1..3 : zip.entries[1][SizeFields[k]] = ValueOf(k)

\* uncompressed size and compressed size hold the sentinel, the offset does
\* not: the two take the first and second value of a 0x0001 field that holds
\* three, and the offset keeps its own
C23_Witness ==
    /\ FirstRecordRead
    /\ Opened
    /\ HasSentinel(1) /\ HasSentinel(2) /\ ~HasSentinel(3)
    /\ read_u16_le(file, Zip64Field + 2) = 24
    /\ zip.entries[1].uncompressed_size = 2
    /\ zip.entries[1].compressed_size = 3
    /\ zip.entries[1].local_header_offset = 0

\* a sentinel field with no 0x0001 field, and one with a field too short
UpgradeMissing == FirstRecordRead /\ Upgraded /\ Zip64Field = -1 /\ OpenFailed("InvalidFormat")
UpgradeShort ==
    /\ FirstRecordRead /\ Zip64Field >= 0 /\ Unvalued /\ HasValue(1)
    /\ OpenFailed("InvalidFormat")
UpgradeAfterOther ==
    FirstRecordRead /\ Upgraded /\ Zip64Field > FirstExtra /\ Opened
UpgradeUnused ==
    FirstRecordRead /\ ~Upgraded /\ Zip64Field >= 0 /\ Opened
        /\ read_u16_le(file, Zip64Field + 2) >= 8


(* Names of directory records                                                *)

\* where the record after the first begins
SecondRecord ==
    FirstRecord + 46 + FirstNameLen + FirstExtraLen + read_u16_le(file, FirstRecord + 32)
SecondNameLen == read_u16_le(file, SecondRecord + 28)

\* the archive holds two whole directory records, the first with a name of
\* more than 256 bytes
LongFirstName ==
    /\ CdWalked
    /\ zip.eocd.num_entries = 2
    /\ FirstIsRecord
    /\ FirstNameLen > MAX_FILENAME_LEN
    /\ SecondRecord + 46 + SecondNameLen <= zip.eocd.cd_offset + zip.eocd.cd_size
    /\ read_u32_le(file, SecondRecord) = SIG_CD_ENTRY
    /\ read_u16_le(file, SecondRecord + 30) = 0

\* a record with a longer name is enumerated without its name, and the record
\* after it is read from where it begins
LongNameEnumerated ==
    LongFirstName =>
        /\ Opened
        /\ Len(zip.entries) = 2
        /\ zip.entries[1].filename = <<>>
        /\ zip.entries[1].local_header_offset
              = u32_as_u64(read_u32_le(file, FirstRecord + 42))
        /\ zip.entries[2].filename = Slice(file, SecondRecord + 46, SecondNameLen)
        /\ zip.entries[2].local_header_offset
              = u32_as_u64(read_u32_le(file, SecondRecord + 42))

\* C24: a central-directory record whose name is longer than 256 bytes is
\* still enumerated, its name not stored, and the records after it are parsed
\* from the correct position; every cached entry's filename is bounded by 256
\* bytes.
C24_BoundedNames ==
    /\ LongNameEnumerated
    /\ Opened => \A k \in 1..Len(zip.entries) :
                    Len(zip.entries[k].filename) <= MAX_FILENAME_LEN

\* no more than 256 bytes of a name are read, and a stored name has at most
\* three bytes for each of them
NameBytesBounded ==
    Opened => \A k \in 1..Len(zip.entries) :
                 Len(zip.entries[k].filename) <= 3 * MAX_FILENAME_LEN

\* a name of 257 bytes is passed over; a name of 256 letters is stored; a
\* stored name of 86 bytes that are not UTF-8 is 258 bytes long
LongNameSkipped == LongFirstName /\ Opened /\ Len(zip.entries) = 2
FullNameStored ==
    Opened /\ Len(zip.entries) = 2 /\ Len(zip.entries[1].filename) = MAX_FILENAME_LEN
LossyNameLonger ==
    /\ Opened /\ Len(zip.entries) = 2 /\ FirstNameLen = 86
    /\ Len(zip.entries[1].filename) = 258


(* The end of a DEFLATE stream                                               *)

\* the compressed data of the entry last read, as the archive holds it
LastData == RawData(LastEntry)

\* the symbols before the k-th can all be decoded
DecodableBefore(st, k) ==
    \A j \in 1..(k - 1) :
        /\ st[j] \notin {0, 255}
        /\ st[j] = 253 => \E i \in 1..(j - 1) : st[i] \notin {253, 254}

\* the stream ends before its last byte: compressed bytes are left over
EndsEarly(st) == \E k \in 1..(Len(st) - 1) : st[k] = 0 /\ DecodableBefore(st, k)

\* a read of a DEFLATE entry whose header and data the source holds, made
\* with scratch buffers, within the limits, and into room for more than the
\* stream decodes to
DeflateRead ==
    /\ ReadMade
    /\ LastEntry.method = METHOD_DEFLATED
    /\ EntryIntact(LastEntry)
    /\ ScratchGiven
    /\ WithinLimits(LastEntry)
    /\ last.op = "read_file" =>
          /\ last.buf_len >= LastEntry.uncompressed_size
          /\ last.buf_len > Len(Decoded(LastData, <<>>))

\* C25: in a DEFLATE read, buffered and streamed, output stops at the
\* inflater's stream end; stream end with compressed bytes still unread from
\* the source or unconsumed in the scratch buffer fails with DecompressError,
\* so a successful read has consumed exactly compressed_size bytes.
C25_StreamEnd ==
    /\ (ReadMade /\ LastEntry.method = METHOD_DEFLATED /\ last.res.kind = "Ok") =>
          /\ EntryIntact(LastEntry)
          /\ StreamComplete(LastData)
          /\ last.res.data = Decoded(LastData, <<>>)
    /\ (DeflateRead /\ EndsEarly(LastData)) =>
          /\ last.res.kind = "DecompressError"
          /\ last.res.data = Decoded(LastData, <<>>)

\* the stream ends in a chunk of the scratch buffer with more of the data
\* still in the source: DecompressError, after the output before the end
C25_Witness ==
    /\ DeflateRead
    /\ last.op = "read_file_to_writer"
    /\ EndsEarly(LastData)
    /\ last.in_len = 1
    /\ last.res.kind = "DecompressError"
    /\ last.res.data # <<>>

\* the stream ends with bytes of the same chunk unconsumed, in either read
ResidualPending ==
    /\ DeflateRead /\ EndsEarly(LastData) /\ last.in_len >= LastEntry.compressed_size
    /\ last.op = "read_file" /\ last.res.kind = "DecompressError"
ResidualPendingStreamed ==
    /\ DeflateRead /\ EndsEarly(LastData) /\ last.in_len >= LastEntry.compressed_size
    /\ last.op = "read_file_to_writer" /\ last.res.kind = "DecompressError"

\* a read that ends at the last compressed byte, made in chunks of one byte
ConsumedExactly ==
    /\ DeflateRead /\ last.res.kind = "Ok" /\ last.in_len = 1
    /\ LastEntry.compressed_size >= 3


(* The read limit and the output                                             *)

\* C26: when limits are set, a read, successful or failed, never delivers
\* more than max_file_read_size decompressed bytes to the caller's buffer or
\* writer, whatever sizes the entry declares.
C26_OutputWithinLimit ==
    (ReadMade /\ limits.some) => Len(last.res.data) <= limits.max_file_read_size

\* under limits, more than max_file_read_size bytes are delivered only by a
\* DEFLATE entry that decodes to more than it declares; a buffered read never
\* delivers more than its buffer holds
OutputWithinDeclared ==
    ReadMade =>
        /\ last.op = "read_file" => Len(last.res.data) <= last.buf_len
        /\ (limits.some /\ Len(last.res.data) > limits.max_file_read_size) =>
              /\ LastEntry.method = METHOD_DEFLATED
              /\ Len(last.res.data) > LastEntry.uncompressed_size

\* an entry within the limit of 4 bytes on both declared sizes is streamed to
\* the writer as 5 bytes, and the read succeeds
OutputOverLimit ==
    /\ ReadMade
    /\ limits.some
    /\ last.op = "read_file_to_writer"
    /\ last.res.kind = "Ok"
    /\ last.res.n > limits.max_file_read_size


(* What the writer receives                                                  *)

Streamed == ReadMade /\ last.op = "read_file_to_writer"

\* the bytes a are the first bytes of b
StartsWith(b, a) == Len(a) <= Len(b) /\ SubSeq(b, 1, Len(a)) = a

\* C27: read_file_to_writer_with_scratch checks the CRC only after the last
\* output chunk was written: with CrcMismatch the writer has received the
\* entire decompressed output; in every run the writer receives the
\* decompressed bytes in stream order, each byte once; on Ok(n) it has
\* received exactly n bytes.
C27_WriterReceives ==
    Streamed =>
        /\ last.res.kind = "CrcMismatch" =>
              /\ EntryIntact(LastEntry)
              /\ last.res.data = EntryContent(LastEntry)
        /\ last.res.data # <<>> => StartsWith(EntryContent(LastEntry), last.res.data)
        /\ last.res.kind = "Ok" =>
              /\ last.res.n = Len(last.res.data)
              /\ last.res.data = EntryContent(LastEntry)

\* a STORED entry of two bytes, copied in chunks of one byte, fails with
\* CrcMismatch after both bytes are written
C27_Witness ==
    /\ Streamed
    /\ LastEntry.method = METHOD_STORED
    /\ last.in_len = 1
    /\ last.res.kind = "CrcMismatch"
    /\ Len(last.res.data) = 2
    /\ last.res.data = EntryContent(LastEntry)

\* a streamed read that fails after part of the output was written
PartWritten ==
    /\ Streamed
    /\ last.res.kind \in {"DecompressError", "IoError"}
    /\ last.res.data # <<>>
    /\ StartsWith(EntryContent(LastEntry), last.res.data)

\* a DEFLATE entry written in several chunks of the output buffer
WrittenInChunks ==
    /\ Streamed /\ LastEntry.method = METHOD_DEFLATED /\ last.res.kind = "Ok"
    /\ last.out_len = 1 /\ last.res.n >= 3

\* a buffered read whose buffer is shorter than the entry's decoded content
Overfull ==
    /\ Opened
    /\ last.op = "read_file"
    /\ LastEntry.method = METHOD_DEFLATED
    /\ EntryIntact(LastEntry)
    /\ ScratchGiven
    /\ WithinLimits(LastEntry)
    /\ last.buf_len >= LastEntry.uncompressed_size
    /\ Len(Decoded(LastData, <<>>)) > last.buf_len

\* the bytes of the entry's data a read took from the source
Consumed == last.res.pos - RawDataOffset(LastEntry)

\* C28: every entry read returns after a bounded number of loop iterations,
\* at most one more than the compressed bytes it took plus the bytes it
\* produced, and a buffered read whose inflate step can neither consume nor
\* produce (the buffer is full, the input is used up) ends in
\* DecompressError, never in Ok.
C28_ReadTerminates ==
    ReadMade =>
        /\ last.res.iters <= LastEntry.compressed_size + Len(last.res.data) + 1
        /\ (EntryIntact(LastEntry) /\ last.res.iters > 1) =>
              last.res.iters <= Consumed + Len(last.res.data) + 1
        /\ Overfull => last.res.kind \in {"BufferTooSmall", "DecompressError"}

C28_Witness ==
    /\ Overfull
    /\ StreamComplete(LastData)
    /\ Consumed = LastEntry.compressed_size
    /\ Len(last.res.data) = last.buf_len
    /\ last.res.iters > 1
    /\ last.res.kind = "DecompressError"

ManyIterations == ReadMade /\ last.res.iters >= 4 /\ last.res.kind = "Ok"

StreamedIterations ==
    /\ ReadMade
    /\ last.op = "read_file_to_writer"
    /\ last.res.iters = LastEntry.compressed_size + Len(last.res.data) + 1

\* what the caller of a read gets: the result and the bytes delivered
Outcome(r) == <<r.kind, r.n, r.data>>

AnyRead == Opened /\ last.op \in {"read_file", "read_file_to_writer", "read_file_at_offset"}

\* the read the state records, made with the cursor where the open left it
FreshRead ==
    IF last.op = "read_file"
    THEN read_file_with_scratch(file, limits, zip.entries[last.idx], last.buf_len,
                                last.in_len, OpenCursor)
    ELSE IF last.op = "read_file_to_writer"
    THEN read_file_to_writer_with_scratch(file, limits, zip.entries[last.idx],
                                          last.in_len, last.out_len, OpenCursor)
    ELSE IF last.idx = 0 THEN ReadResult("FileNotFound", 0, <<>>, OpenCursor)
    ELSE read_file_with_scratch(file, limits, zip.entries[last.idx], last.buf_len,
                                DEFAULT_ZIP_SCRATCH_BYTES, OpenCursor)

CacheKept == zip.status = "open" => (zip' = zip /\ limits' = limits /\ file' = file)

\* C29: an entry read made after any earlier operations, wherever they left
\* the cursor, returns what the same read returns right after the open, and
\* no operation on an open archive changes the cached entries or the limits.
C29_ReadsIndependent ==
    /\ [](AnyRead => Outcome(last.res) = Outcome(FreshRead))
    /\ [][CacheKept]_vars

C29_Witness ==
    /\ AnyRead
    /\ last.moved
    /\ last.res.kind = "Ok"
    /\ last.res.data # <<>>
    /\ pos # OpenCursor

MovedReadAtOffset ==
    /\ Opened /\ last.op = "read_file_at_offset" /\ last.moved
    /\ last.res.kind = "Ok" /\ last.res.data # <<>>

ReadAtOffsetNotFound ==
    Opened /\ last.op = "read_file_at_offset" /\ last.res.kind = "FileNotFound"

MovedReadFails == AnyRead /\ last.moved /\ last.res.kind = "CrcMismatch"

\* where the k-th record of the central directory starts, as the records
\* lie in the file
NextRecord(q) ==
    q + 46 + read_u16_le(file, q + 28) + read_u16_le(file, q + 30)
      + read_u16_le(file, q + 32)

RECURSIVE RecordStartFrom(_, _)
RecordStartFrom(q, k) ==
    IF k <= 1 \/ q < 0 THEN q ELSE RecordStartFrom(NextRecord(q), k - 1)

RecordStart(k) == RecordStartFrom(FirstRecord, k)

\* entry e was read from the record that starts at q
ReadFromRecord(e, q) ==
    /\ read_u32_le(file, q) = SIG_CD_ENTRY
    /\ e.method = read_u16_le(file, q + 10)
    /\ e.crc32 = read_u32_le(file, q + 16)
    /\ read_u32_le(file, q + 42) # u32_MAX =>
          e.local_header_offset = read_u32_le(file, q + 42)

DeclaredCount == zip.eocd.num_entries

\* C30: after a successful open num_entries() is the number of cached
\* entries, at most the declared count and at most 256;
\* get_entry_by_index(i) is Some, of the i-th cached entry, exactly for
\* i < num_entries(); entries() yields the cached entries, the k-th of them
\* read from the k-th record of the central directory.
C30_Accessors ==
    Opened =>
        /\ num_entries(zip) = Len(zip.entries)
        /\ Len(zip.entries) <= Min(DeclaredCount, MAX_CD_ENTRIES)
        /\ last.op = "num_entries" => last.found = Len(zip.entries)
        /\ last.op = "get_entry_by_index" =>
              /\ last.got.some <=> last.idx < num_entries(zip)
              /\ last.got.some => last.got.entry = zip.entries[last.idx + 1]
        /\ last.op = "entries" =>
              /\ Len(last.listed) = num_entries(zip)
              /\ \A k \in 1..Len(last.listed) :
                    /\ last.listed[k] = zip.entries[k]
                    /\ ReadFromRecord(last.listed[k], RecordStart(k))

C30_Witness ==
    /\ Opened
    /\ last.op = "entries"
    /\ DeclaredCount > MAX_CD_ENTRIES
    /\ Len(last.listed) = MAX_CD_ENTRIES
    /\ last.listed[1].local_header_offset # last.listed[2].local_header_offset
    /\ num_entries(zip) = MAX_CD_ENTRIES

FewerThanDeclared ==
    /\ Opened /\ last.op = "num_entries"
    /\ last.found < DeclaredCount /\ DeclaredCount <= MAX_CD_ENTRIES

IndexAtCount ==
    /\ Opened /\ last.op = "get_entry_by_index"
    /\ last.idx = num_entries(zip) /\ last.idx < DeclaredCount /\ ~last.got.some

IndexBelowCount ==
    /\ Opened /\ last.op = "get_entry_by_index"
    /\ last.idx = MAX_CD_ENTRIES - 1 /\ last.got.some

NoEntries == Opened /\ last.op = "entries" /\ last.listed = <<>>


====
